---------------------------- MODULE Spec2Model ----------------------------
(***************************************************************************)
(* A model of knor (src/src/knor.cpp, src/src/aigmaker.cpp): the priority  *)
(* adjustment, the AIG maker (makeand, bdd_to_aig, the two cover           *)
(* conversions), the game constructions and the driver main_task.          *)
(*                                                                         *)
(* Each subsystem has its own specification over its own variables; the    *)
(* variables of the other subsystems are parked at an idle value.          *)
(***************************************************************************)
EXTENDS Integers, Naturals, Sequences, FiniteSets, TLC

VARIABLES
    \* ---- adjustPriority (knor.cpp:155-169): one call and its result
    adj_pc,            \* "idle" | "call" | "done"
    adj_args,          \* [p, maxPriority, controllerIsOdd, noPriorities]
    adj_result,        \* the value returned
    \* ---- AIGmaker (aigmaker.cpp): the members the encoders read and write
    aig_pc,            \* "idle" | "ready"
    lit,               \* AIGmaker::lit, the next free literal
    cache,             \* AIGmaker::cache, <<rhs1, rhs0>> -> gate literal
    ands,              \* the AND table of the aiger object a, in emission order
    mapping,           \* AIGmaker::mapping, DD node -> literal
    var_to_lit,        \* AIGmaker::var_to_lit, DD variable -> literal
    last,              \* the last call made on the AIGmaker and what it returned
    ncalls,            \* how many calls were made on the AIGmaker
    \* ---- main_task (knor.cpp:549-1052): one run of the driver
    main_pc,           \* the position in main_task, "idle" when not running
    loc,               \* the flag locals of l.553 and l.621-627
    data,              \* the HoaData filled by parseHoa
    sym,               \* sym != nullptr
    realizable,        \* "unknown" | "true" | "false"
    options,           \* the options read after solving, option -> given or not
    stdout,            \* what was written to standard output, in order
    status,            \* how the process ended: exit(code), return code, abort
    trace,             \* the calls made and the errors reported, in order
    numAnds,           \* --best: getNumAnds() of var1, var2, var3, var1b, var2b,
                       \* var3b when the smallest is looked for (l.902)
    wrote,             \* --best: the variants written to stdout, in order
    \* ---- the explicit games (knor.cpp:207-474) and their solution
    g_pc,              \* "idle" | "start" | "built" | "solved"
    g_in,              \* [data, isMaxParity, controllerIsOdd]: the arguments
    g_split,           \* "none" | "naive" | "explicit": which construction ran
    game,              \* the pg::Game returned
    g_realizable,      \* "unknown" | "true" | "false": winner[vstart] == 0
    \* ---- AIGmaker::compress (aigmaker.cpp:492-591): one call
    abc_pc,            \* "idle" | "start" | "loop" | "exit" | "done" | "thrown"
    old_num_nodes,     \* the local of l.500
    new_num_nodes,     \* the local of l.499
    executions,        \* how many times executeCompressCommands was entered
    commands,          \* the commands handed to ABC by the latest of them
    tmpfiles,          \* the temporary files that exist on disk
    abc_trace,         \* what was done to the temporary files, in order
    what,              \* the message of the runtime_error thrown, if any
    first_num_nodes,   \* what getAbcNetworkSize returned at l.499
    \* ---- evalLabelNaive (knor.cpp:98-144): one call and its result
    ev_pc,             \* "idle" | "call" | "done"
    ev_in,             \* [op, left, right, value]: the label and the valuation
    ev_result          \* the value returned

adjVars == <<adj_pc, adj_args, adj_result>>
aigVars == <<aig_pc, lit, cache, ands, mapping, var_to_lit, last, ncalls>>
bestVars == <<numAnds, wrote>>
mainVars == <<main_pc, loc, data, sym, realizable, options, stdout, status, trace,
              bestVars>>
gameVars == <<g_pc, g_in, g_split, game, g_realizable>>
abcVars == <<abc_pc, old_num_nodes, new_num_nodes, executions, commands,
             tmpfiles, abc_trace, what, first_num_nodes>>
evalVars == <<ev_pc, ev_in, ev_result>>
vars == <<adjVars, aigVars, mainVars, gameVars, abcVars, evalVars>>
\* what an action of one subsystem leaves alone in the others
notAdj == <<aigVars, mainVars, gameVars, abcVars, evalVars>>
notAig == <<adjVars, mainVars, gameVars, abcVars, evalVars>>
notMain == <<adjVars, aigVars, gameVars, abcVars, evalVars>>
notGame == <<adjVars, aigVars, mainVars, abcVars, evalVars>>
notAbc == <<adjVars, aigVars, mainVars, gameVars, evalVars>>
notEval == <<adjVars, aigVars, mainVars, gameVars, abcVars>>

NoCall == [op |-> "none"]
EmptyFun == [x \in {} |-> 0]

AdjIdle == adj_pc = "idle" /\ adj_args = NoCall /\ adj_result = 0
AigIdle ==
    /\ aig_pc = "idle" /\ lit = 0 /\ cache = EmptyFun /\ ands = <<>>
    /\ mapping = EmptyFun /\ var_to_lit = EmptyFun /\ last = NoCall /\ ncalls = 0
NoStatus == [kind |-> "none"]
MainIdle ==
    /\ main_pc = "idle" /\ loc = EmptyFun /\ data = EmptyFun /\ sym = FALSE
    /\ realizable = "unknown" /\ options = EmptyFun /\ stdout = <<>>
    /\ status = NoStatus /\ trace = <<>> /\ numAnds = <<>> /\ wrote = <<>>
GameIdle ==
    /\ g_pc = "idle" /\ g_in = EmptyFun /\ g_split = "none" /\ game = EmptyFun
    /\ g_realizable = "unknown"
NoError == <<"", "">>
AbcIdle ==
    /\ abc_pc = "idle" /\ old_num_nodes = 0 /\ new_num_nodes = 0
    /\ executions = 0 /\ commands = <<>> /\ tmpfiles = {} /\ abc_trace = <<>>
    /\ what = NoError /\ first_num_nodes = 0
EvalIdle == ev_pc = "idle" /\ ev_in = NoCall /\ ev_result = 0

-----------------------------------------------------------------------------
(* Bounds of the model.                                                    *)

\* the largest number of acceptance sets (data->noAccSets) tried
MaxAccSets == 6
\* game->uap_count and game->statebits of the symbolic game handed to AIGmaker
NumUAPs == 1
NumStateBits == 1
\* game->cap_count
NumCAPs == 1
\* the number of calls made on one AIGmaker
MaxCalls == 2
\* the most product terms of a cover handed to a cover conversion
MaxProducts == 2
\* the most states (data->noStates) of an automaton read by the driver
NumStates == 2
\* the most states of an automaton handed to a game construction
GameStates == 1

-----------------------------------------------------------------------------
(* adjustPriority, knor.cpp:155-169.  All values stay far inside int.      *)

adjustPriority_shift1(p, maxPriority, controllerIsOdd, noPriorities) ==
    LET evenMax == 2 * ((noPriorities + 1) \div 2)
        p1 == IF ~maxPriority THEN evenMax - p ELSE p
        p2 == p1 + 1
    IN  IF controllerIsOdd THEN p2 - 1 ELSE p2

adjustPriority_noflip(p, maxPriority, controllerIsOdd, noPriorities) ==
    LET p2 == p + 2
    IN  IF controllerIsOdd THEN p2 - 1 ELSE p2

adjustPriority_even_only(p, maxPriority, controllerIsOdd, noPriorities) ==
    LET evenMax == 2 * ((noPriorities + 1) \div 2)
        p1 == IF ~maxPriority THEN evenMax - p ELSE p
    IN  p1 + 2

adjustPriority_oddmax(p, maxPriority, controllerIsOdd, noPriorities) ==
    LET evenMax == 2 * (noPriorities \div 2) + 1
        p1 == IF ~maxPriority THEN evenMax - p ELSE p
        p2 == p1 + 2
    IN  IF controllerIsOdd THEN p2 - 1 ELSE p2

adjustPriority(p, maxPriority, controllerIsOdd, noPriorities) ==
    LET evenMax == 2 * ((noPriorities + 1) \div 2)     \* int division, l.161
        p1 == IF ~maxPriority THEN evenMax - p ELSE p  \* l.160-163
        p2 == p1 + 2                                   \* l.165
    IN  IF controllerIsOdd THEN p2 - 1 ELSE p2         \* l.167

\* The inputs of a call: k acceptance sets, a priority 0..k-1 of the automaton.
AdjInputs ==
    { [p |-> p, maxPriority |-> mx, controllerIsOdd |-> odd, noPriorities |-> k] :
        p \in 0..(MaxAccSets - 1), mx \in BOOLEAN, odd \in BOOLEAN, k \in 1..MaxAccSets }

InitAdj ==
    /\ adj_pc = "call"
    /\ adj_args \in { a \in AdjInputs : a.p < a.noPriorities }
    /\ adj_result = 0
    /\ AigIdle /\ MainIdle /\ GameIdle /\ AbcIdle /\ EvalIdle

AdjustPriorityCall ==
    /\ adj_pc = "call"
    /\ adj_result' = adjustPriority(adj_args.p, adj_args.maxPriority,
                                    adj_args.controllerIsOdd, adj_args.noPriorities)
    /\ adj_pc' = "done"
    /\ UNCHANGED <<adj_args, notAdj>>

NextAdj == AdjustPriorityCall

SpecAdj == InitAdj /\ [][NextAdj]_vars

\* What the call returned, seen from outside.
AdjDone == adj_pc = "done"
AdjOddShift == IF adj_args.controllerIsOdd THEN 1 ELSE 0
\* the least even number that is >= k
LeastEvenAtLeast(k) == CHOOSE e \in k..(k + 1) : e % 2 = 0
\* ceil(n / 2)
CeilHalf(n) == (n + 1) \div 2

\* C3 (as stated): for a min-parity automaton p is first replaced by
\* 2*ceil((k+1)/2) - p, then 2 is added, then 1 subtracted for an odd
\* controller; for max-parity only the last two steps; for every k >= 1.
C3_AsStated ==
    AdjDone =>
        adj_result =
            (IF adj_args.maxPriority THEN adj_args.p
             ELSE 2 * CeilHalf(adj_args.noPriorities + 1) - adj_args.p)
            + 2 - AdjOddShift

\* C3 (amended): the flip is E - p with E = 2*floor((k+1)/2), the least even
\* number >= k (which is 2*ceil((k+1)/2) only when k is odd); then +2, then
\* -1 for an odd controller; max-parity only +2 and -1.
C3_FlipIsLeastEven ==
    AdjDone =>
        adj_result =
            (IF adj_args.maxPriority THEN adj_args.p
             ELSE LeastEvenAtLeast(adj_args.noPriorities) - adj_args.p)
            + 2 - AdjOddShift

C3_Witness ==
    /\ AdjDone /\ ~adj_args.maxPriority /\ adj_args.noPriorities % 2 = 0
    /\ adj_args.p = adj_args.noPriorities - 1 /\ adj_args.controllerIsOdd

\* C5 (as stated): with 3 acceptance sets, min-parity and an odd controller
\* the priorities 0, 1, 2 become 4, 3, 2.
C5_AsStated ==
    (AdjDone /\ adj_args.noPriorities = 3 /\ ~adj_args.maxPriority
        /\ adj_args.controllerIsOdd)
    => adj_result = 4 - adj_args.p

\* C5 (amended): with 3 acceptance sets, min-parity and an odd controller the
\* priorities 0, 1, 2 become 5, 4, 3 (the flip gives 4, 3, 2, then +2 -1).
C5_MinOddThree ==
    (AdjDone /\ adj_args.noPriorities = 3 /\ ~adj_args.maxPriority
        /\ adj_args.controllerIsOdd)
    => adj_result = <<5, 4, 3>>[adj_args.p + 1]

C5_Witness ==
    /\ AdjDone /\ adj_args.noPriorities = 3 /\ ~adj_args.maxPriority
    /\ adj_args.controllerIsOdd /\ adj_args.p = 0 /\ adj_result = 5

\* p is of the controller's parity in the automaton's acceptance
ControllersParity(p, controllerIsOdd) == (p % 2 = 1) <=> controllerIsOdd
\* p is the stronger of p and q in the automaton's acceptance
Dominates(p, q, maxPriority) == IF maxPriority THEN p > q ELSE p < q

\* C25: for every number k >= 1 of acceptance sets and priorities p, q below
\* k, the adjusted priority of p is even exactly if p has the controller's
\* parity, and is greater than the adjusted priority of q exactly if p
\* dominates q (p > q for max-parity, p < q for min-parity).
C25_MaxEvenEquivalent ==
    AdjDone =>
        /\ adj_result % 2 = 0
              <=> ControllersParity(adj_args.p, adj_args.controllerIsOdd)
        /\ \A q \in 0..(adj_args.noPriorities - 1) :
              adj_result > adjustPriority(q, adj_args.maxPriority,
                                          adj_args.controllerIsOdd, adj_args.noPriorities)
                  <=> Dominates(adj_args.p, q, adj_args.maxPriority)
C25_Witness ==
    /\ AdjDone /\ ~adj_args.maxPriority /\ adj_args.controllerIsOdd
    /\ adj_args.noPriorities = 4 /\ adj_args.p = 1 /\ adj_result = 4

-----------------------------------------------------------------------------
(* AIGmaker, aigmaker.cpp.  A literal is a natural number: 0 false, 1 true, *)
(* 2v the variable v, 2v+1 its negation.                                   *)

aiger_false == 0
aiger_true == 1
aiger_not(l) == IF l % 2 = 0 THEN l + 1 ELSE l - 1      \* (l) ^ 1

\* The DD variables of the symbolic game, in the order uap < cap < s.
uap_count == NumUAPs
cap_count == NumCAPs
statebits == NumStateBits
uap_vars == 0..(uap_count - 1)
cap_vars == uap_count..(uap_count + cap_count - 1)
s_vars == (uap_count + cap_count)..(uap_count + cap_count + statebits - 1)

\* The constructor, l.15-74: inputs take 2, 4, ..., latches the literals after.
uap_to_lit == [i \in 0..(uap_count - 1) |-> 2 + 2 * i]
state_to_lit == [i \in 0..(statebits - 1) |-> 2 + 2 * uap_count + 2 * i]
AIGmaker ==
    [ lit |-> 2 + 2 * uap_count + 2 * statebits,
      cache |-> EmptyFun,
      ands |-> <<>>,
      mapping |-> EmptyFun,
      var_to_lit |->
          [v \in uap_vars \cup s_vars |->
              IF v \in uap_vars THEN uap_to_lit[v]
              ELSE state_to_lit[v - (uap_count + cap_count)]] ]

\* The members an encoder call works on, as one value.
Mach ==
    [lit |-> lit, cache |-> cache, ands |-> ands, mapping |-> mapping,
     var_to_lit |-> var_to_lit]

\* cache_key: rhs1 in the high 32 bits, rhs0 in the low 32 bits (l.137-139).
cache_key(rhs0, rhs1) == <<rhs1, rhs0>>

Min2(a, b) == IF b < a THEN b ELSE a
Max2(a, b) == IF b < a THEN a ELSE b

\* makeand, l.125-149: the result and the members after the call.
makeand_nocache(m, rhs0, rhs1) ==
    LET lo == Min2(rhs0, rhs1)
        hi == Max2(rhs0, rhs1)
    IN  IF lo = 0 THEN [res |-> 0, m |-> m]
        ELSE IF lo = 1 THEN [res |-> hi, m |-> m]
        ELSE [res |-> m.lit,
              m |-> [m EXCEPT !.lit = m.lit + 2,
                              !.cache = (cache_key(lo, hi) :> m.lit) @@ m.cache,
                              !.ands = Append(m.ands,
                                  [lhs |-> m.lit, rhs0 |-> lo, rhs1 |-> hi])]]

makeand_noswap(m, rhs0, rhs1) ==
    IF rhs0 = 0 THEN [res |-> 0, m |-> m]
    ELSE IF rhs0 = 1 THEN [res |-> rhs1, m |-> m]
    ELSE IF cache_key(rhs0, rhs1) \in DOMAIN m.cache
         THEN [res |-> m.cache[cache_key(rhs0, rhs1)], m |-> m]
         ELSE [res |-> m.lit,
               m |-> [m EXCEPT !.lit = m.lit + 2,
                               !.cache = (cache_key(rhs0, rhs1) :> m.lit) @@ m.cache,
                               !.ands = Append(m.ands,
                                   [lhs |-> m.lit, rhs0 |-> rhs0, rhs1 |-> rhs1])]]

makeand_odd_step(m, rhs0, rhs1) ==
    LET lo == Min2(rhs0, rhs1)
        hi == Max2(rhs0, rhs1)
        key == cache_key(lo, hi)
    IN  IF lo = 0 THEN [res |-> 0, m |-> m]
        ELSE IF lo = 1 THEN [res |-> hi, m |-> m]
        ELSE IF key \in DOMAIN m.cache
             THEN [res |-> m.cache[key], m |-> m]
             ELSE [res |-> m.lit,
                   m |-> [m EXCEPT !.lit = m.lit + 1,
                                   !.cache = (key :> m.lit) @@ m.cache,
                                   !.ands = Append(m.ands,
                                       [lhs |-> m.lit, rhs0 |-> lo, rhs1 |-> hi])]]

makeand_skip(m, rhs0, rhs1) ==
    LET lo == Min2(rhs0, rhs1)
        hi == Max2(rhs0, rhs1)
        key == cache_key(lo, hi)
    IN  IF lo = 0 THEN [res |-> 0, m |-> m]
        ELSE IF lo = 1 THEN [res |-> hi, m |-> m]
        ELSE IF key \in DOMAIN m.cache
             THEN [res |-> m.cache[key], m |-> m]
             ELSE [res |-> m.lit + 2,
                   m |-> [m EXCEPT !.lit = m.lit + 4,
                                   !.cache = (key :> m.lit + 2) @@ m.cache,
                                   !.ands = Append(m.ands,
                                       [lhs |-> m.lit + 2, rhs0 |-> lo, rhs1 |-> hi])]]

makeand(m, rhs0, rhs1) ==
    LET lo == Min2(rhs0, rhs1)                          \* l.128-132
        hi == Max2(rhs0, rhs1)
        key == cache_key(lo, hi)
    IN  IF lo = 0 THEN [res |-> 0, m |-> m]             \* l.134
        ELSE IF lo = 1 THEN [res |-> hi, m |-> m]       \* l.135
        ELSE IF key \in DOMAIN m.cache                  \* l.140-142
             THEN [res |-> m.cache[key], m |-> m]
             ELSE [res |-> m.lit,                       \* l.144-147
                   m |-> [m EXCEPT !.lit = m.lit + 2,
                                   !.cache = (key :> m.lit) @@ m.cache,
                                   !.ands = Append(m.ands,
                                       [lhs |-> m.lit, rhs0 |-> lo, rhs1 |-> hi])]]

InitAig ==
    /\ aig_pc = "ready"
    /\ lit = AIGmaker.lit
    /\ cache = AIGmaker.cache
    /\ ands = AIGmaker.ands
    /\ mapping = AIGmaker.mapping
    /\ var_to_lit = AIGmaker.var_to_lit
    /\ last = NoCall
    /\ ncalls = 0

SetMach(m) ==
    /\ lit' = m.lit
    /\ cache' = m.cache
    /\ ands' = m.ands
    /\ mapping' = m.mapping

\* ---- the makeand specification: any sequence of makeand calls on literals
\* ---- that exist (constants, inputs, latches, gates and their negations)
InitAnd == InitAig /\ AdjIdle /\ MainIdle /\ GameIdle /\ AbcIdle /\ EvalIdle

MakeandCall ==
    /\ aig_pc = "ready"
    /\ ncalls < MaxCalls
    /\ ncalls' = ncalls + 1
    /\ \E rhs0 \in 0..(lit - 1), rhs1 \in 0..(lit - 1) :
          LET r == makeand(Mach, rhs0, rhs1) IN
            /\ SetMach(r.m)
            /\ last' = [op |-> "makeand", rhs0 |-> rhs0, rhs1 |-> rhs1,
                        res |-> r.res, pre |-> Mach]
    /\ UNCHANGED <<aig_pc, var_to_lit, notAig>>

NextAnd == MakeandCall

SpecAnd == InitAnd /\ [][NextAnd]_vars

\* The normalised (smaller, larger) input pair of a gate or of a call.
NormPair(a, b) == <<Min2(a, b), Max2(a, b)>>
GatesWithPair(table, pr) ==
    { i \in 1..Len(table) : NormPair(table[i].rhs0, table[i].rhs1) = pr }
LastIsMakeand == last.op = "makeand"

\* C9: no two emitted AND gates have the same normalised input pair, and a
\* makeand call on a pair some gate already has, in either argument order,
\* returns that gate's literal and emits nothing.
C9_StructuralUniqueness ==
    /\ \A i, j \in 1..Len(ands) :
          i # j => NormPair(ands[i].rhs0, ands[i].rhs1)
                     # NormPair(ands[j].rhs0, ands[j].rhs1)
    /\ LastIsMakeand =>
          LET used == GatesWithPair(last.pre.ands, NormPair(last.rhs0, last.rhs1))
          IN  used # {} =>
                /\ ands = last.pre.ands
                /\ \E i \in used : last.res = ands[i].lhs

C9_Witness ==
    /\ LastIsMakeand /\ Len(ands) = 1 /\ last.rhs0 > last.rhs1
    /\ GatesWithPair(last.pre.ands, NormPair(last.rhs0, last.rhs1)) # {}
    /\ last.res = ands[1].lhs

\* C10: a makeand call with an operand 0 returns 0; with an operand 1 (the
\* other one not 0) it returns the other operand; in either argument order;
\* and such a call emits no gate and leaves the cache and the next free
\* literal as they were.
C10_ConstantsShortCircuit ==
    LastIsMakeand =>
        /\ (last.rhs0 = 0 \/ last.rhs1 = 0) =>
              last.res = 0 /\ Mach = last.pre
        /\ ((last.rhs0 = 1 \/ last.rhs1 = 1) /\ last.rhs0 # 0 /\ last.rhs1 # 0) =>
              /\ last.res = (IF last.rhs0 = 1 THEN last.rhs1 ELSE last.rhs0)
              /\ Mach = last.pre

C10_Witness ==
    /\ LastIsMakeand /\ Len(ands) >= 1
    /\ last.rhs1 = 1 /\ last.rhs0 = ands[1].lhs + 1 /\ last.res = last.rhs0

\* the literals of the inputs and the latches, and what a gate may read
InputLits == { uap_to_lit[i] : i \in 0..(uap_count - 1) }
LatchLits == { state_to_lit[i] : i \in 0..(statebits - 1) }
Unsigned(l) == l - (l % 2)
GateOutputs(table, n) == { table[j].lhs : j \in 1..n }
MayFeed(l, table, i) ==
    \/ l \in {aiger_false, aiger_true}
    \/ Unsigned(l) \in InputLits \cup LatchLits
    \/ Unsigned(l) \in GateOutputs(table, i - 1)

\* C11: every AND gate emitted has an even output literal greater than both
\* of its inputs, and each input is a constant, an input or latch literal, or
\* the output of a gate emitted earlier, possibly negated; the literal a call
\* returns exists already, so it can feed a later gate.
C11_TopologicalOrder ==
    /\ \A i \in 1..Len(ands) :
          /\ ands[i].lhs % 2 = 0
          /\ ands[i].lhs > ands[i].rhs0 /\ ands[i].lhs > ands[i].rhs1
          /\ MayFeed(ands[i].rhs0, ands, i) /\ MayFeed(ands[i].rhs1, ands, i)
    /\ last # NoCall => last.res < lit /\ MayFeed(last.res, ands, Len(ands) + 1)

C11_Witness ==
    /\ Len(ands) = 2
    /\ ands[2].rhs1 = aiger_not(ands[1].lhs)
    /\ ands[2].rhs0 \in InputLits \cup LatchLits

\* C12: the inputs have the literals 2, 4, ..., 2I in order, the latches
\* 2I+2, ..., 2(I+L), the k-th gate emitted 2(I+L+k); the next free literal
\* is 2(I+L+A+1) and the largest variable index I+L+A, A the number of gates.
C12_DenseLiterals ==
    /\ \A i \in 0..(uap_count - 1) : uap_to_lit[i] = 2 * (i + 1)
    /\ \A i \in 0..(statebits - 1) : state_to_lit[i] = 2 * (uap_count + i + 1)
    /\ \A v \in uap_vars : var_to_lit[v] = uap_to_lit[v]
    /\ \A v \in s_vars : var_to_lit[v] = state_to_lit[v - (uap_count + cap_count)]
    /\ \A k \in 1..Len(ands) : ands[k].lhs = 2 * (uap_count + statebits + k)
    /\ lit = 2 * (uap_count + statebits + Len(ands) + 1)
    /\ (lit - 2) \div 2 = uap_count + statebits + Len(ands)

C12_Witness ==
    /\ Len(ands) = 2 /\ lit = 2 * (uap_count + statebits + 3)
    /\ ands[2].lhs = 2 * (uap_count + statebits + 2)

-----------------------------------------------------------------------------
(* BDDs with complement edges, as bdd_to_aig reads them (l.318-376).  A    *)
(* handle is a node and a complement mark; a node is the terminal <<>> or  *)
(* <<var, low, high>>.  Nodes are kept canonical the way the DD kernel     *)
(* keeps them: the low edge is never marked, low # high, and the children  *)
(* test later variables; so a node is its own identity.                    *)

Handle(c, n) == [c |-> c, n |-> n]
Terminal == <<>>
mtbdd_false == Handle(FALSE, Terminal)
mtbdd_true == Handle(TRUE, Terminal)
mtbdd_getvar(bdd) == bdd.n[1]
\* the mark of the handle is carried over to the child
mtbdd_getlow(bdd) == Handle(bdd.c # bdd.n[2].c, bdd.n[2].n)
mtbdd_gethigh(bdd) == Handle(bdd.c # bdd.n[3].c, bdd.n[3].n)
\* bdd ^= sylvan_complement, l.325-328
StripMark(bdd) == Handle(FALSE, bdd.n)
NotBdd(bdd) == Handle(~bdd.c, bdd.n)

\* The BDDs handed to the encoder: over the state and uncontrollable-AP
\* variables, every node whose children are constants or single-variable
\* nodes (with two variables these are all sixteen functions).
DDVars == uap_vars \cup s_vars
VarNodes == { <<v, mtbdd_false, mtbdd_true>> : v \in DDVars }
LowsBelow(v) ==
    {mtbdd_false} \cup { Handle(FALSE, n) : n \in { k \in VarNodes : k[1] > v } }
HighsBelow(v) ==
    {mtbdd_false, mtbdd_true}
        \cup { Handle(c, n) : c \in BOOLEAN, n \in { k \in VarNodes : k[1] > v } }
BddNodes ==
    UNION { { <<v, lo, hi>> : lo \in LowsBelow(v), hi \in HighsBelow(v) } : v \in DDVars }
BddInputs ==
    {mtbdd_false, mtbdd_true}
        \cup { Handle(c, n) : c \in BOOLEAN, n \in { k \in BddNodes : k[2] # k[3] } }

\* An assignment is the set of the DD variables that are true.
Assignments == SUBSET DDVars

\* The Boolean function a handle denotes.
RECURSIVE EvalBdd(_, _)
EvalBdd(bdd, x) ==
    IF bdd.n = Terminal THEN bdd.c
    ELSE bdd.c # (IF bdd.n[1] \in x THEN EvalBdd(bdd.n[3], x) ELSE EvalBdd(bdd.n[2], x))

\* The value of a literal over the AND table: 0, 1, an input or latch (one of
\* ins, true when in high), a gate, or the negation of one of these.
RECURSIVE EvalGate(_, _, _, _)
EvalGate(l, table, ins, high) ==
    IF l = 0 THEN FALSE
    ELSE IF l = 1 THEN TRUE
    ELSE IF l % 2 = 1 THEN ~EvalGate(l - 1, table, ins, high)
    ELSE IF l \in ins THEN l \in high
    ELSE LET g == table[CHOOSE i \in 1..Len(table) : table[i].lhs = l]
         IN  EvalGate(g.rhs0, table, ins, high) /\ EvalGate(g.rhs1, table, ins, high)

\* ... with every DD variable read through var_to_lit
EvalLit(l, table, v2l, x) ==
    EvalGate(l, table, { v2l[v] : v \in DOMAIN v2l }, { v2l[v] : v \in x })

\* l.342-352: low is false and high is not a constant
shannon_high(m, the_lit, highres) == makeand(m, the_lit, highres)

\* l.353-363: high is false and low is not a constant
shannon_low_nonot(m, the_lit, lowres) == makeand(m, the_lit, lowres)
shannon_low(m, the_lit, lowres) == makeand(m, aiger_not(the_lit), lowres)

\* l.364-371: OR(low, high) == ~AND(~AND(~the_lit, low), ~AND(the_lit, high))
shannon_both_swapped(m, the_lit, lowres, highres) ==
    LET a == makeand(m, the_lit, lowres)
        b == makeand(a.m, aiger_not(the_lit), highres)
        c == makeand(b.m, aiger_not(a.res), aiger_not(b.res))
    IN  [res |-> aiger_not(c.res), m |-> c.m]
shannon_both(m, the_lit, lowres, highres) ==
    LET a == makeand(m, aiger_not(the_lit), lowres)     \* l.368
        b == makeand(a.m, the_lit, highres)             \* l.369
        c == makeand(b.m, aiger_not(a.res), aiger_not(b.res))   \* l.370
    IN  [res |-> aiger_not(c.res), m |-> c.m]

\* l.332 and l.375: the polarity returned for a handle
bdd_polarity_ignored(comp, res) == res
bdd_polarity(comp, res) == IF comp THEN aiger_not(res) ELSE res

\* l.330 and l.373: the memo is keyed on the handle without its mark
bdd_memo_key_marked(bdd) == bdd
bdd_memo_key(bdd) == StripMark(bdd)

RECURSIVE bdd_to_aig(_, _)
bdd_to_aig(m, bdd) ==
    IF bdd = mtbdd_true THEN [res |-> aiger_true, m |-> m]
    ELSE IF bdd = mtbdd_false THEN [res |-> aiger_false, m |-> m]
    ELSE
      LET comp == bdd.c
          node == StripMark(bdd)
          key == bdd_memo_key(bdd)
      IN  IF key \in DOMAIN m.mapping
          THEN [res |-> bdd_polarity(comp, m.mapping[key]), m |-> m]
          ELSE
            LET the_lit == m.var_to_lit[mtbdd_getvar(node)]
                low == mtbdd_getlow(node)
                high == mtbdd_gethigh(node)
                r == IF low = mtbdd_false
                     THEN IF high = mtbdd_true
                          THEN [res |-> the_lit, m |-> m]
                          ELSE LET h == bdd_to_aig(m, high)
                               IN  shannon_high(h.m, the_lit, h.res)
                     ELSE IF high = mtbdd_false
                     THEN IF low = mtbdd_true
                          THEN [res |-> aiger_not(the_lit), m |-> m]
                          ELSE LET l == bdd_to_aig(m, low)
                               IN  shannon_low(l.m, the_lit, l.res)
                     ELSE LET l == bdd_to_aig(m, low)
                              h == bdd_to_aig(l.m, high)
                          IN  shannon_both(h.m, the_lit, l.res, h.res)
                m2 == [r.m EXCEPT !.mapping = (key :> r.res) @@ r.m.mapping]
            IN  [res |-> bdd_polarity(comp, r.res), m |-> m2]

\* ---- the Shannon specification: bdd_to_aig on one BDD after another, as
\* ---- process() does for the cap_bdds and the state_bdds (l.432-437)
InitShannon == InitAig /\ AdjIdle /\ MainIdle /\ GameIdle /\ AbcIdle /\ EvalIdle

BddToAigCall ==
    /\ aig_pc = "ready"
    /\ ncalls < MaxCalls
    /\ ncalls' = ncalls + 1
    /\ \E bdd \in BddInputs :
          LET r == bdd_to_aig(Mach, bdd) IN
            /\ SetMach(r.m)
            /\ last' = [op |-> "bdd_to_aig", bdd |-> bdd, res |-> r.res, pre |-> Mach]
    /\ UNCHANGED <<aig_pc, var_to_lit, notAig>>

NextShannon == BddToAigCall

SpecShannon == InitShannon /\ [][NextShannon]_vars

LastIsBdd == last.op = "bdd_to_aig"
IsConstBdd(bdd) == bdd.n = Terminal

\* C6: the literal bdd_to_aig returns for f has, over the AND gates emitted
\* so far and with every DD variable read through var_to_lit, the value f(x)
\* under every assignment x; true gives literal 1 and false literal 0; and
\* every literal the call put in the memo has the value of its node.
C6_ShannonPreservesFunction ==
    /\ LastIsBdd =>
          /\ \A x \in Assignments :
                EvalLit(last.res, ands, var_to_lit, x) = EvalBdd(last.bdd, x)
          /\ last.bdd = mtbdd_true => last.res = 1
          /\ last.bdd = mtbdd_false => last.res = 0
          /\ \A k \in DOMAIN mapping \ DOMAIN last.pre.mapping :
                \A x \in Assignments :
                    EvalLit(mapping[k], ands, var_to_lit, x) = EvalBdd(k, x)

\* the last call converted a node with two non-constant children, one of them
\* found in the memo, entered through a marked handle
C6_Witness ==
    /\ LastIsBdd /\ ncalls = 2 /\ last.bdd.c /\ ~IsConstBdd(last.bdd)
    /\ ~IsConstBdd(last.bdd.n[2]) /\ ~IsConstBdd(last.bdd.n[3])
    /\ StripMark(last.bdd.n[3]) \in DOMAIN last.pre.mapping
    /\ StripMark(last.bdd) \notin DOMAIN last.pre.mapping
    /\ Len(ands) > Len(last.pre.ands)

\* C7: for a non-constant node the memo holds the unmarked handle with the
\* positive-polarity literal; the call on the marked handle returns aiger_not
\* of the literal for the unmarked one; and a call on either polarity of a
\* node already in the memo emits no gate.
C7_PolarityAndMemo ==
    /\ \A k \in DOMAIN mapping : ~k.c /\ ~IsConstBdd(k)
    /\ (LastIsBdd /\ ~IsConstBdd(last.bdd)) =>
          /\ StripMark(last.bdd) \in DOMAIN mapping
          /\ last.res = (IF last.bdd.c THEN aiger_not(mapping[StripMark(last.bdd)])
                         ELSE mapping[StripMark(last.bdd)])
          /\ LET again == bdd_to_aig(Mach, NotBdd(last.bdd))
             IN  again.res = aiger_not(last.res) /\ again.m.ands = ands
          /\ StripMark(last.bdd) \in DOMAIN last.pre.mapping => Mach = last.pre

\* a second call, on the marked handle of a node the first call converted
C7_Witness ==
    /\ LastIsBdd /\ ncalls = 2 /\ last.bdd.c /\ Len(ands) > 0
    /\ StripMark(last.bdd) \in DOMAIN last.pre.mapping
    /\ last.res = aiger_not(mapping[StripMark(last.bdd)])

-----------------------------------------------------------------------------
(* ZDD covers, as the cover conversions read them (l.222-316).  ZDD        *)
(* variable 2v is the DD variable v as a positive literal, 2v+1 as a       *)
(* negative one.  A ZDD is canonical for the family of products it holds,  *)
(* so a cover is modelled by that family: a set of products, each the set  *)
(* of its ZDD variables.                                                   *)

zdd_false == {}
zdd_true == {{}}
CoverVars(cover) == UNION cover
zdd_getvar(cover) == CHOOSE v \in CoverVars(cover) : \A w \in CoverVars(cover) : v <= w
zdd_getlow(cover) == { P \in cover : zdd_getvar(cover) \notin P }
zdd_gethigh(cover) ==
    { P \ {zdd_getvar(cover)} : P \in { Q \in cover : zdd_getvar(cover) \in Q } }

\* l.241-242 and l.295-297: the literal of a ZDD variable
cover_lit(m, the_var) ==
    IF the_var % 2 = 1 THEN aiger_not(m.var_to_lit[the_var \div 2])
    ELSE m.var_to_lit[the_var \div 2]

\* The covers handed in: up to MaxProducts products over the signed state and
\* uncontrollable-AP literals, no product holding a variable in both signs.
ZddVars == UNION { {2 * v, 2 * v + 1} : v \in DDVars }
Products == { P \in SUBSET ZddVars : \A v \in DDVars : ~(2 * v \in P /\ 2 * v + 1 \in P) }
CoverInputs == { c \in SUBSET Products : Cardinality(c) <= MaxProducts }

\* The function a cover denotes: the disjunction of its products.
EvalCover(cover, x) ==
    \E P \in cover : \A zv \in P : (zv % 2 = 0) <=> ((zv \div 2) \in x)

RECURSIVE SortedSeq(_)
SortedSeq(S) ==
    IF S = {} THEN <<>>
    ELSE LET mn == CHOOSE a \in S : \A b \in S : a <= b
         IN  <<mn>> \o SortedSeq(S \ {mn})

\* The orders in which zdd_cover_enum_first/next may hand out the products.
RECURSIVE Enumerations(_)
Enumerations(cover) ==
    IF cover = {} THEN { <<>> }
    ELSE UNION { { <<P>> \o rest : rest \in Enumerations(cover \ {P}) } : P \in cover }

\* l.249-260: AND the literals of one product, front two at a time; a product
\* is pushed only when a last literal is left.
RECURSIVE sop_and_queue(_, _)
sop_and_queue(m, gates) ==
    IF Len(gates) = 0 THEN [pushed |-> <<>>, m |-> m]
    ELSE IF Len(gates) = 1 THEN [pushed |-> <<gates[1]>>, m |-> m]
    ELSE LET r == makeand(m, gates[1], gates[2])
         IN  sop_and_queue(r.m, SubSeq(gates, 3, Len(gates)) \o <<r.res>>)

\* l.236-262: the products queue after every product was enumerated
RECURSIVE sop_products(_, _, _)
sop_products(m, enum, products) ==
    IF enum = <<>> THEN [products |-> products, m |-> m]
    ELSE LET product == SortedSeq(Head(enum))
             gates == [i \in 1..Len(product) |-> cover_lit(m, product[i])]
             r == sop_and_queue(m, gates)
         IN  sop_products(r.m, Tail(enum), products \o r.pushed)

\* l.268-281: OR the products, front two at a time
RECURSIVE sop_or_queue(_, _)
sop_or_queue(m, products) ==
    IF Len(products) = 0 THEN [res |-> aiger_false, m |-> m]
    ELSE IF Len(products) = 1 THEN [res |-> products[1], m |-> m]
    ELSE LET r == makeand(m, aiger_not(products[1]), aiger_not(products[2]))
         IN  sop_or_queue(r.m, SubSeq(products, 3, Len(products)) \o <<aiger_not(r.res)>>)

\* bdd_to_aig_cover_sop, l.222-282; enum is the order of the enumeration
bdd_to_aig_cover_sop(m, cover, enum) ==
    IF cover = zdd_true THEN [res |-> aiger_true, m |-> m]
    ELSE IF cover = zdd_false THEN [res |-> aiger_false, m |-> m]
    ELSE LET p == sop_products(m, enum, <<>>)
         IN  sop_or_queue(p.m, p.products)

\* bdd_to_aig_cover, l.284-316
RECURSIVE bdd_to_aig_cover(_, _)
bdd_to_aig_cover(m, cover) ==
    IF cover = zdd_true THEN [res |-> aiger_true, m |-> m]
    ELSE IF cover = zdd_false THEN [res |-> aiger_false, m |-> m]
    ELSE IF cover \in DOMAIN m.mapping THEN [res |-> m.mapping[cover], m |-> m]
    ELSE
      LET the_lit == cover_lit(m, zdd_getvar(cover))
          low == zdd_getlow(cover)
          high == zdd_gethigh(cover)
          r1 == IF high # zdd_true
                THEN LET x == bdd_to_aig_cover(m, high)
                     IN  makeand(x.m, the_lit, x.res)
                ELSE [res |-> the_lit, m |-> m]
          r2 == IF low # zdd_false
                THEN LET x == bdd_to_aig_cover(r1.m, low)
                         a == makeand(x.m, aiger_not(r1.res), aiger_not(x.res))
                     IN  [res |-> aiger_not(a.res), m |-> a.m]
                ELSE r1
      IN  [res |-> r2.res,
           m |-> [r2.m EXCEPT !.mapping = (cover :> r2.res) @@ r2.m.mapping]]

\* ---- the cover specification: the two cover conversions, called on one
\* ---- cover after another
InitCover == InitAig /\ AdjIdle /\ MainIdle /\ GameIdle /\ AbcIdle /\ EvalIdle

BddToAigCoverCall ==
    /\ aig_pc = "ready"
    /\ ncalls < MaxCalls
    /\ ncalls' = ncalls + 1
    /\ \E cover \in CoverInputs :
          LET r == bdd_to_aig_cover(Mach, cover) IN
            /\ SetMach(r.m)
            /\ last' = [op |-> "bdd_to_aig_cover", cover |-> cover,
                        res |-> r.res, pre |-> Mach]
    /\ UNCHANGED <<aig_pc, var_to_lit, notAig>>

BddToAigCoverSopCall ==
    /\ aig_pc = "ready"
    /\ ncalls < MaxCalls
    /\ ncalls' = ncalls + 1
    /\ \E cover \in CoverInputs : \E enum \in Enumerations(cover) :
          LET r == bdd_to_aig_cover_sop(Mach, cover, enum) IN
            /\ SetMach(r.m)
            /\ last' = [op |-> "bdd_to_aig_cover_sop", cover |-> cover,
                        res |-> r.res, pre |-> Mach]
    /\ UNCHANGED <<aig_pc, var_to_lit, notAig>>

NextCover == BddToAigCoverCall \/ BddToAigCoverSopCall

SpecCover == InitCover /\ [][NextCover]_vars

LastIsCover == last.op \in {"bdd_to_aig_cover", "bdd_to_aig_cover_sop"}

\* C8: for every cover, the empty product among other products included,
\* bdd_to_aig_cover_sop and bdd_to_aig_cover return literals that denote the
\* same function, the disjunction of the cover's products.
C8_AsStated ==
    LastIsCover =>
        LET other == bdd_to_aig_cover(Mach, last.cover)
        IN  \A x \in Assignments :
              /\ EvalLit(last.res, ands, var_to_lit, x) = EvalCover(last.cover, x)
              /\ EvalLit(other.res, other.m.ands, var_to_lit, x)
                    = EvalLit(last.res, ands, var_to_lit, x)

\* What does hold: the recursive conversion always yields the disjunction,
\* and the enumerating one does whenever the cover is the constant true or
\* has no empty product.
CoverRecursiveIsDisjunction ==
    (/\ LastIsCover
     /\ (last.op = "bdd_to_aig_cover" \/ last.cover = zdd_true \/ {} \notin last.cover))
        => \A x \in Assignments :
              EvalLit(last.res, ands, var_to_lit, x) = EvalCover(last.cover, x)

-----------------------------------------------------------------------------
(* AIGmaker::compress, aigmaker.cpp:492-591.  ABC is an input here: the    *)
(* node counts it reports and the step that fails are chosen, what         *)
(* compress does with them is translated.                                  *)

MaxNodes == 21

\* aigmaker.cpp:454-474
compressCommands ==
    << "balance -l", "resub -K 6 -l", "rewrite -l", "resub -K 6 -N 2",
       "refactor -l", "resub -K 8 -l", "balance -l", "resub -K 8 -N 2 -l",
       "rewrite -l", "resub -K 10 -l", "rewrite -z -l", "resub -K 10 -N 2 -l",
       "balance -l", "resub -K 12 -l", "refactor -z -l", "resub -K 12 -N 2 -l",
       "balance -l", "rewrite -z -l", "balance -l" >>

\* the two names mkstemp hands out: the file ABC reads, the file ABC writes
TmpIn == "knor.in"
TmpOut == "knor.out"

\* the throw of executeAbcCommand, aigmaker.cpp:515-519
CannotExecute(command) == <<"Cannot execute ABC command: ", command>>

\* an executeCompressCommands that runs the later commands after a failure
executeCompressCommands_all(failAt) ==
    IF failAt = 0
    THEN [commands |-> compressCommands, what |-> NoError]
    ELSE [commands |-> compressCommands,
          what |-> CannotExecute(compressCommands[failAt])]

\* aigmaker.cpp:521-527: the commands in order, up to the first that fails
\* (failAt = 0: none fails)
executeCompressCommands(failAt) ==
    IF failAt = 0
    THEN [commands |-> compressCommands, what |-> NoError]
    ELSE [commands |-> SubSeq(compressCommands, 1, failAt),
          what |-> CannotExecute(compressCommands[failAt])]

\* the command that fails in one run of the sequence: none (0), the first,
\* one in the middle, the last
FailPositions == {0, 1, 3, Len(compressCommands)}

\* aigmaker.cpp:505: the break inside the loop; / is the division of int
compress_break(old, new) == (old - new) < (old \div 20)
\* a while that does not look for the empty network
compress_while_any(old, new) == new < old
\* aigmaker.cpp:501: the condition of the while
compress_while(old, new) == new > 0 /\ new < old

WriteFailures == {"none", "mkstemp", "fdopen", "aiger_write_to_file", "read_aiger"}
ReadFailures == {"none", "mkstemp", "write_aiger", "fdopen", "aiger_read_from_file"}

\* aigmaker.cpp:546-566 (getTmpFile l.535-544 inlined).  The result: the
\* files left on disk, what was done, the message thrown.
writeToAbc(fail) ==
    IF fail = "mkstemp"
    THEN [files |-> {}, events |-> << <<"mkstemp failed", TmpIn>> >>,
          what |-> <<"Could not create temporary file: ", TmpIn>>]
    ELSE IF fail = "fdopen"
    THEN [files |-> {TmpIn}, events |-> << <<"mkstemp", TmpIn>> >>,
          what |-> <<"Could not open temporary file: ", TmpIn>>]
    ELSE IF fail = "aiger_write_to_file"
    THEN [files |-> {TmpIn},
          events |-> << <<"mkstemp", TmpIn>>, <<"write failed", TmpIn>> >>,
          what |-> <<"Could not write AIGER circuit to file: ", TmpIn>>]
    ELSE IF fail = "read_aiger"
    THEN [files |-> {TmpIn},
          events |-> << <<"mkstemp", TmpIn>>, <<"write", TmpIn>>,
                        <<"read failed", TmpIn>> >>,
          what |-> CannotExecute("read_aiger knor.in")]
    ELSE [files |-> {},
          events |-> << <<"mkstemp", TmpIn>>, <<"write", TmpIn>>,
                        <<"read", TmpIn>>, <<"remove", TmpIn>> >>,
          what |-> NoError]

\* a readFromAbc that forgets std::remove
readFromAbc_no_remove(files, fail) ==
    IF fail = "mkstemp"
    THEN [files |-> files, events |-> << <<"mkstemp failed", TmpOut>> >>,
          what |-> <<"Could not create temporary file: ", TmpOut>>]
    ELSE IF fail = "write_aiger"
    THEN [files |-> files \cup {TmpOut},
          events |-> << <<"mkstemp", TmpOut>>, <<"write failed", TmpOut>> >>,
          what |-> CannotExecute("write_aiger -s knor.out")]
    ELSE IF fail = "fdopen"
    THEN [files |-> files \cup {TmpOut},
          events |-> << <<"mkstemp", TmpOut>>, <<"write", TmpOut>> >>,
          what |-> <<"Could not open temporary file: ", TmpOut>>]
    ELSE IF fail = "aiger_read_from_file"
    THEN [files |-> files \cup {TmpOut},
          events |-> << <<"mkstemp", TmpOut>>, <<"write", TmpOut>>,
                        <<"read failed", TmpOut>> >>,
          what |-> <<"Could not read AIGER circuit from file: ", TmpOut>>]
    ELSE [files |-> files \cup {TmpOut},
          events |-> << <<"mkstemp", TmpOut>>, <<"write", TmpOut>>,
                        <<"read", TmpOut>> >>,
          what |-> NoError]

\* aigmaker.cpp:568-591 (getTmpFile inlined): the file is removed at l.586,
\* after the read and before its result is looked at
readFromAbc(files, fail) ==
    IF fail = "mkstemp"
    THEN [files |-> files, events |-> << <<"mkstemp failed", TmpOut>> >>,
          what |-> <<"Could not create temporary file: ", TmpOut>>]
    ELSE IF fail = "write_aiger"
    THEN [files |-> files \cup {TmpOut},
          events |-> << <<"mkstemp", TmpOut>>, <<"write failed", TmpOut>> >>,
          what |-> CannotExecute("write_aiger -s knor.out")]
    ELSE IF fail = "fdopen"
    THEN [files |-> files \cup {TmpOut},
          events |-> << <<"mkstemp", TmpOut>>, <<"write", TmpOut>> >>,
          what |-> <<"Could not open temporary file: ", TmpOut>>]
    ELSE IF fail = "aiger_read_from_file"
    THEN [files |-> files \ {TmpOut},
          events |-> << <<"mkstemp", TmpOut>>, <<"write", TmpOut>>,
                        <<"read failed", TmpOut>>, <<"remove", TmpOut>> >>,
          what |-> <<"Could not read AIGER circuit from file: ", TmpOut>>]
    ELSE [files |-> files \ {TmpOut},
          events |-> << <<"mkstemp", TmpOut>>, <<"write", TmpOut>>,
                        <<"read", TmpOut>>, <<"remove", TmpOut>> >>,
          what |-> NoError]

InitCompress ==
    /\ abc_pc = "start" /\ old_num_nodes = 0 /\ new_num_nodes = 0
    /\ executions = 0 /\ commands = <<>> /\ tmpfiles = {} /\ abc_trace = <<>>
    /\ what = NoError /\ first_num_nodes = 0
    /\ AdjIdle /\ AigIdle /\ MainIdle /\ GameIdle /\ EvalIdle

\* aigmaker.cpp:493-501: writeToAbc, the two locals, the first test of the
\* while
CompressStart ==
    /\ abc_pc = "start"
    /\ \E fail \in WriteFailures, n \in 0..MaxNodes :
          LET r == writeToAbc(fail) IN
          /\ tmpfiles' = r.files /\ abc_trace' = r.events /\ what' = r.what
          /\ IF r.what # NoError
             THEN abc_pc' = "thrown"
                  /\ UNCHANGED <<old_num_nodes, new_num_nodes, first_num_nodes>>
             ELSE /\ new_num_nodes' = n /\ old_num_nodes' = n + 1
                  /\ first_num_nodes' = n
                  /\ abc_pc' = IF compress_while(n + 1, n) THEN "loop" ELSE "exit"
    /\ UNCHANGED <<executions, commands>>
    /\ UNCHANGED notAbc

\* aigmaker.cpp:502-506 and the next test of the while, l.501
CompressIteration ==
    /\ abc_pc = "loop"
    /\ \E failAt \in FailPositions, n \in 0..MaxNodes :
          LET r == executeCompressCommands(failAt) IN
          /\ executions' = executions + 1 /\ commands' = r.commands
          /\ what' = r.what
          /\ IF r.what # NoError
             THEN abc_pc' = "thrown" /\ UNCHANGED <<old_num_nodes, new_num_nodes>>
             ELSE /\ old_num_nodes' = new_num_nodes /\ new_num_nodes' = n
                  /\ abc_pc' = IF compress_break(new_num_nodes, n) THEN "exit"
                               ELSE IF compress_while(new_num_nodes, n) THEN "loop"
                               ELSE "exit"
    /\ UNCHANGED <<tmpfiles, abc_trace, first_num_nodes>>
    /\ UNCHANGED notAbc

\* aigmaker.cpp:509-510: readFromAbc, Abc_Stop
CompressFinish ==
    /\ abc_pc = "exit"
    /\ \E fail \in ReadFailures :
          LET r == readFromAbc(tmpfiles, fail) IN
          /\ tmpfiles' = r.files /\ abc_trace' = abc_trace \o r.events
          /\ what' = r.what
          /\ abc_pc' = IF r.what # NoError THEN "thrown" ELSE "done"
    /\ UNCHANGED <<old_num_nodes, new_num_nodes, executions, commands, first_num_nodes>>
    /\ UNCHANGED notAbc

NextCompress == CompressStart \/ CompressIteration \/ CompressFinish
SpecCompress == InitCompress /\ [][NextCompress]_vars
\* compress is straight-line code around one loop: a step that can be taken
\* is taken
SpecCompressFair == SpecCompress /\ WF_vars(NextCompress)

\* an iteration has just ended: the loop is about to run again or was left
AfterIteration == executions > 0 /\ abc_pc \in {"loop", "exit"}

\* C13: after an iteration that takes the node count from old to new,
\* another iteration is run if and only if old - new is at least 5% of old
\* (20 * (old - new) >= old), for every pair of counts.
C13_AsStated ==
    AfterIteration =>
        (abc_pc = "loop" <=>
            20 * (old_num_nodes - new_num_nodes) >= old_num_nodes)

\* what the code does instead: 5% of old is rounded down, and an empty
\* network ends the loop
CompressContinuesIff ==
    AfterIteration =>
        (abc_pc = "loop" <=>
            /\ old_num_nodes - new_num_nodes >= old_num_nodes \div 20
            /\ new_num_nodes > 0 /\ new_num_nodes < old_num_nodes)

\* the rounding at work: 21 -> 20 is less than 5%, and the loop goes on
RoundedDownShrink ==
    AfterIteration /\ old_num_nodes = 21 /\ new_num_nodes = 20 /\ abc_pc = "loop"

Happened(event) == \E i \in 1..Len(abc_trace) : abc_trace[i] = event
HappenedBefore(e1, e2) ==
    \E i, j \in 1..Len(abc_trace) :
        i < j /\ abc_trace[i] = e1 /\ abc_trace[j] = e2

\* C14: when compress returns normally both temporary files were removed,
\* each after it was read; when mkstemp fails or the read-back fails,
\* compress throws a runtime_error and does not return normally.
C14_TempFilesRemovedOnSuccess ==
    /\ abc_pc = "done" =>
          /\ tmpfiles = {} /\ what = NoError
          /\ \A f \in {TmpIn, TmpOut} :
                HappenedBefore(<<"read", f>>, <<"remove", f>>)
    /\ \A f \in {TmpIn, TmpOut} :
          Happened(<<"mkstemp failed", f>>) =>
              abc_pc = "thrown" /\ what = <<"Could not create temporary file: ", f>>
    /\ Happened(<<"read failed", TmpOut>>) =>
          /\ abc_pc = "thrown"
          /\ what = <<"Could not read AIGER circuit from file: ", TmpOut>>
C14_Witness ==
    /\ abc_pc = "done" /\ executions = 2
    /\ Happened(<<"remove", TmpIn>>) /\ Happened(<<"remove", TmpOut>>)

Thrown == abc_pc = "thrown"
ThrownByCommand == Thrown /\ what[1] = "Cannot execute ABC command: "
ReadBackTried ==
    Happened(<<"read", TmpOut>>) \/ Happened(<<"read failed", TmpOut>>)

\* C27: when a command of the rewriter fails during compress, a fatal error
\* with the text of that command is raised at once: no later command of the
\* sequence is executed, no further iteration is started, and the circuit
\* is not read back.
C27_FailingCommandEndsCompress ==
    /\ [](ThrownByCommand => ~ReadBackTried)
    /\ [][(abc_pc = "loop" /\ what' # NoError) =>
            /\ abc_pc' = "thrown"
            /\ commands' # <<>>
            /\ commands' = SubSeq(compressCommands, 1, Len(commands'))
            /\ what' = CannotExecute(commands'[Len(commands')])
            /\ abc_trace' = abc_trace]_vars
    /\ [][Thrown => UNCHANGED vars]_vars
C27_Witness ==
    /\ Thrown /\ executions = 2 /\ Len(commands) = 3
    /\ what = CannotExecute("rewrite -l") /\ ~ReadBackTried
\* the two commands around the loop fail the same way
C27_WitnessWriteAiger ==
    /\ ThrownByCommand /\ executions = 1 /\ Happened(<<"write failed", TmpOut>>)

\* C28: the loop of compress ends whatever node counts the rewriter
\* reports: the command sequence is executed at most n0 times, n0 the node
\* count before the first iteration; exactly once when the first iteration
\* does not reduce the count; not at all when n0 is 0.
C28_LoopTerminates ==
    /\ [](executions <= first_num_nodes)
    /\ []((executions = 1 /\ what = NoError /\ abc_pc # "start"
               /\ new_num_nodes >= old_num_nodes) => abc_pc # "loop")
    /\ [][executions' # executions => abc_pc = "loop"]_vars
    /\ []((abc_pc \in {"exit", "done"} /\ first_num_nodes > 0)
               => executions >= 1)
    /\ <>(abc_pc \in {"done", "thrown"})
\* the longest run: one node less every time, from 4 nodes down to none
C28_Witness ==
    /\ abc_pc = "done" /\ first_num_nodes = 4 /\ executions = 4
    /\ new_num_nodes = 0
\* one execution, nothing gained
C28_WitnessOnce ==
    /\ abc_pc = "done" /\ first_num_nodes = 4 /\ executions = 1
    /\ old_num_nodes = 4 /\ new_num_nodes = 4

\* C29: whenever compress ends by a fatal error, every temporary file it
\* created has been removed.
C29_AsStated == Thrown => tmpfiles = {}

\* what the code does: a file is gone exactly when std::remove was reached,
\* and of the failures only the failed read-back comes after a remove
RemovedOnlyWhereRemoveIsReached ==
    /\ \A f \in {TmpIn, TmpOut} :
          Happened(<<"mkstemp", f>>) =>
              (f \notin tmpfiles <=> Happened(<<"remove", f>>))
    /\ (Thrown /\ ~Happened(<<"mkstemp failed", TmpIn>>)
            /\ ~Happened(<<"mkstemp failed", TmpOut>>) /\ tmpfiles = {}) =>
          (Happened(<<"read failed", TmpOut>>) \/ commands # <<>>)

-----------------------------------------------------------------------------
(* The driver main_task, knor.cpp:549-1052.  The parser, the game          *)
(* constructions, the solvers and the encoder are calls whose results are  *)
(* inputs here: what they return is chosen, what main_task does with it is *)
(* translated.  A flag is chosen where main_task reads it.                 *)

Append2(seq, more) == seq \o more
If(c, seq) == IF c THEN seq ELSE <<>>

Exit(code) == [kind |-> "exit", code |-> code]
Return(code) == [kind |-> "return", code |-> code]
Aborted == [kind |-> "abort"]
\* main returns what main_task returned (l.1068-1072); the process status is
\* the low byte of the value handed to exit or returned from main
ProcessStatus == status.code % 256

\* non-zero results of parseHoa and isParityGFG
ParserErrors == {-1, 1}

\* the automata parseHoa may deliver, as far as l.592-606 read them
StateRecords(i) == [id : {i, i + 1}, noAccSig : {0, 1}]
HoaOfLen(n) == { st \in [1..n -> UNION { StateRecords(i) : i \in 0..(n - 1) }] :
                    \A i \in 1..n : st[i] \in StateRecords(i - 1) }
HoaInputs == UNION { { [noStates |-> n, states |-> st] : st \in HoaOfLen(n) } : n \in 1..NumStates }

\* l.589-606: the loop over the states; i counts from 0 as in the source
RECURSIVE check_states(_, _, _, _)
check_states(d, i, state_priorities, is_bad) ==
    IF i >= d.noStates
    THEN [ret |-> IF is_bad THEN -1 ELSE 0, state_priorities |-> state_priorities,
          cerr |-> <<>>]
    ELSE LET bad == is_bad \/ (i # d.states[i + 1].id)
             said == If(i # d.states[i + 1].id, <<"state has an invalid id">>)
             rest == IF d.states[i + 1].noAccSig # 0
                     THEN IF i = 0 THEN check_states(d, i + 1, TRUE, bad)
                          ELSE IF ~state_priorities
                               THEN [ret |-> -1, state_priorities |-> state_priorities,
                                     cerr |-> <<"not every state has a priority!">>]
                               ELSE check_states(d, i + 1, state_priorities, bad)
                     ELSE check_states(d, i + 1, state_priorities, bad)
         IN  [rest EXCEPT !.cerr = said \o @]

Finish(st) == main_pc' = "done" /\ status' = st

InitMain ==
    /\ main_pc = "main" /\ loc = EmptyFun /\ data = EmptyFun /\ sym = FALSE
    /\ realizable = "unknown" /\ options = EmptyFun /\ stdout = <<>>
    /\ status = NoStatus /\ trace = <<>> /\ numAnds = <<>> /\ wrote = <<>>
    /\ AdjIdle /\ AigIdle /\ GameIdle /\ AbcIdle /\ EvalIdle

\* l.477-534, called at l.1062: --help and --solvers print and exit(0), and
\* so does a command line that does not parse
HandleOptions ==
    /\ main_pc = "main"
    /\ \E outcome \in {"parsed", "help", "solvers", "exception"} :
          IF outcome = "parsed"
          THEN main_pc' = "start" /\ UNCHANGED <<stdout, status>>
          ELSE /\ stdout' = Append(stdout, IF outcome = "help" THEN "help"
                                            ELSE IF outcome = "solvers" THEN "solvers"
                                            ELSE "error parsing options")
               /\ Finish(Exit(0))
    /\ UNCHANGED <<loc, data, sym, realizable, options, trace, bestVars, notMain>>

\* l.551-573: read verbose, open the input and parse it
ReadInput ==
    /\ main_pc = "start"
    /\ \E verbose \in BOOLEAN, input \in {"stdin", "file", "missing file"},
          ret \in {0} \cup ParserErrors, d \in HoaInputs :
          /\ loc' = [verbose |-> verbose]
          /\ IF input = "missing file"
             THEN /\ stdout' = Append(stdout, "file not found")
                  /\ Finish(Return(0))
                  /\ UNCHANGED <<data, trace>>
             ELSE /\ trace' = Append(trace, "parseHoa")
                  /\ stdout' = stdout
                  /\ IF ret # 0
                     THEN Finish(Return(ret)) /\ data' = data
                     ELSE main_pc' = "parsed" /\ data' = d /\ status' = status
    /\ UNCHANGED <<sym, realizable, options, bestVars, notMain>>

\* l.581-611: isParityGFG, then the id and priority-style checks
CheckAutomaton ==
    /\ main_pc = "parsed"
    /\ \E ret \in {0} \cup ParserErrors :
          LET chk == check_states(data, 0, FALSE, FALSE) IN
            /\ trace' = Append2(trace, <<"isParityGFG">> \o If(ret = 0, chk.cerr))
            /\ IF ret # 0 THEN Finish(Return(ret))
               ELSE IF chk.ret # 0 THEN Finish(Return(chk.ret))
               ELSE main_pc' = "checked" /\ status' = status
    /\ UNCHANGED <<loc, data, sym, realizable, options, stdout, bestVars, notMain>>

\* l.613-627: start the DD kernel, read the flags
InitSylvan ==
    /\ main_pc = "checked"
    /\ \E o_sym \in BOOLEAN, naive \in BOOLEAN, explicit \in BOOLEAN,
          print_game \in BOOLEAN, no_solve \in BOOLEAN,
          bisim \in BOOLEAN, bisim_game \in BOOLEAN, bisim_sol \in BOOLEAN :
          loc' = [verbose |-> loc.verbose,
                  explicit_solver |-> ~o_sym,
                  naive_splitting |-> naive,
                  explicit_splitting |-> explicit,
                  write_pg |-> print_game,
                  no_solve |-> no_solve,
                  bisim_game |-> bisim \/ bisim_game,
                  bisim_sol |-> bisim \/ bisim_sol]
    /\ trace' = Append(trace, "sylvan_init")
    /\ main_pc' = "inited"
    /\ UNCHANGED <<data, sym, realizable, options, stdout, status, bestVars, notMain>>

\* l.632-681 and l.749-769: build the game
Construct ==
    /\ main_pc = "inited"
    /\ IF loc.explicit_solver /\ loc.naive_splitting
       THEN trace' = Append(trace, "constructGameNaive") /\ sym' = FALSE
       ELSE IF loc.explicit_solver /\ loc.explicit_splitting
       THEN trace' = Append(trace, "constructGame") /\ sym' = FALSE
       ELSE /\ trace' = Append2(trace, <<"constructSymGame">>
                                  \o If(loc.bisim_game, <<"minimize game">>)
                                  \o If(loc.explicit_solver, <<"toExplicit">>))
            /\ sym' = TRUE
    /\ main_pc' = "constructed"
    /\ UNCHANGED <<loc, data, realizable, options, stdout, status, bestVars, notMain>>

\* l.683-692 and l.771-781: --print-game and --no-solve stop here
StopBeforeSolving ==
    /\ main_pc = "constructed"
    /\ loc.write_pg \/ loc.no_solve
    /\ stdout' = Append2(stdout, If(loc.write_pg, <<"pgsolver game">>))
    /\ trace' = Append2(trace, If(loc.write_pg /\ ~loc.explicit_solver, <<"toExplicit">>))
    /\ Finish(Exit(0))
    /\ UNCHANGED <<loc, data, sym, realizable, options, bestVars, notMain>>

\* l.727: the controller is player 0
winner_is_controller_flipped(winner) == winner = 1
winner_is_controller(winner) == winner = 0

\* l.634 and l.655: the index of the initial vertex in the explicit game
vstart(l) ==
    IF l.naive_splitting \/ l.explicit_splitting THEN "data->start[0]" ELSE "0"
\* l.727: the entry of game->winner that is read, and what it holds
WinnerRead(at, winner) ==
    IF at = "0"
    THEN (IF winner = 0 THEN "winner[0] is 0" ELSE "winner[0] is 1")
    ELSE (IF winner = 0 THEN "winner[data->start[0]] is 0"
          ELSE "winner[data->start[0]] is 1")

\* l.694-747 and l.783-789: solve, and with the external solver hand the
\* strategy to the symbolic game
Solve ==
    /\ main_pc = "constructed"
    /\ ~loc.write_pg /\ ~loc.no_solve
    /\ \E winner \in {0, 1}, solved \in BOOLEAN, applied \in BOOLEAN :
          IF loc.explicit_solver
          THEN /\ realizable' = IF winner_is_controller(winner) THEN "true" ELSE "false"
               /\ trace' = Append2(trace, <<"sort", "oink run", "permute",
                                             WinnerRead(vstart(loc), winner)>>
                     \o If(winner_is_controller(winner) /\ sym,
                           <<"applyStrategy">> \o If(~applied, <<"cannot apply strategy!">>)))
          ELSE /\ realizable' = IF solved THEN "true" ELSE "false"
               /\ trace' = Append(trace, "sym solve")
    /\ main_pc' = "solved"
    /\ UNCHANGED <<loc, data, sym, options, stdout, status, bestVars, notMain>>

\* l.793-805: what --real prints and exits with
real_report_swapped(r) ==
    IF r = "true" THEN [line |-> "REALIZABLE", code |-> 20]
    ELSE [line |-> "UNREALIZABLE", code |-> 10]
real_report(r) ==
    IF r = "true" THEN [line |-> "REALIZABLE", code |-> 10]
    ELSE [line |-> "UNREALIZABLE", code |-> 20]

Read(name, given) == options' = (name :> given) @@ options
Given(name) == name \in DOMAIN options /\ options[name]

\* l.792-806: --real reports the verdict and exits
ReportReal ==
    /\ main_pc = "solved"
    /\ \E real \in BOOLEAN :
          /\ Read("real", real)
          /\ IF real
             THEN /\ stdout' = Append(stdout, real_report(realizable).line)
                  /\ Finish(Exit(real_report(realizable).code))
             ELSE /\ main_pc' = "verdict"
                  /\ UNCHANGED <<stdout, status>>
    /\ UNCHANGED <<loc, data, sym, realizable, trace, bestVars, notMain>>

\* l.1038-1045: unrealizable
Unrealizable ==
    /\ main_pc = "verdict"
    /\ realizable = "false"
    /\ stdout' = Append2(stdout, If(loc.verbose, <<"sylvan stats">>))
    /\ Finish(Return(20))
    /\ UNCHANGED <<loc, data, sym, realizable, options, trace, bestVars, notMain>>

\* l.808-814: realizable, but no symbolic game to encode
RejectSplit ==
    /\ main_pc = "verdict"
    /\ realizable = "true"
    /\ loc.naive_splitting \/ loc.explicit_splitting
    /\ trace' = Append(trace, "--naive and --explicit are incompatible with generating the AIG!")
    /\ Finish(Exit(10))
    /\ UNCHANGED <<loc, data, sym, realizable, options, stdout, bestVars, notMain>>

\* l.821-836: post-process the solved game, read --best
Postprocess ==
    /\ main_pc = "verdict"
    /\ realizable = "true"
    /\ ~(loc.naive_splitting \/ loc.explicit_splitting)
    /\ trace' = Append(trace, "postprocess")
    /\ \E best \in BOOLEAN :
          /\ Read("best", best)
          /\ main_pc' = IF best THEN "best" ELSE "plain"
    /\ UNCHANGED <<loc, data, sym, realizable, stdout, status, bestVars, notMain>>

\* l.909-937 and l.1028-1032: -b goes before -a
written(binary, ascii) ==
    IF binary THEN <<"aiger binary">> ELSE IF ascii THEN <<"aiger ascii">> ELSE <<>>

\* the six circuits of --best in the order of l.838-852
Variants == <<"var1", "var2", "var3", "var1b", "var2b", "var3b">>
MaxAnds == 1
VariantSizes == [1..Len(Variants) -> 0..MaxAnds]

\* a minimum that forgets the last circuit
smallest_of_five(sizes) ==
    Min2(sizes[1], Min2(sizes[2], Min2(sizes[3], Min2(sizes[4], sizes[5]))))

\* l.902-907
smallest_of(sizes) ==
    Min2(Min2(Min2(Min2(Min2(sizes[1], sizes[2]), sizes[3]), sizes[4]), sizes[5]),
         sizes[6])

\* l.910-921, and the same chain at l.924-935: the first circuit as small as
\* the smallest
write_smallest(sizes) ==
    LET smallest == smallest_of(sizes) IN
    IF sizes[1] = smallest THEN <<Variants[1]>>
    ELSE IF sizes[2] = smallest THEN <<Variants[2]>>
    ELSE IF sizes[3] = smallest THEN <<Variants[3]>>
    ELSE IF sizes[4] = smallest THEN <<Variants[4]>>
    ELSE IF sizes[5] = smallest THEN <<Variants[5]>>
    ELSE IF sizes[6] = smallest THEN <<Variants[6]>>
    ELSE <<>>

\* l.838-942: --best encodes six variants and writes the smallest.  A pass
\* of the external rewriter may fail, which is a fatal error.  The sizes
\* are those the circuits have after the passes that ran.
Best ==
    /\ main_pc = "best"
    /\ \E drewrite \in BOOLEAN, compress \in BOOLEAN, binary \in BOOLEAN,
          ascii \in BOOLEAN, failed \in {"none", "drewrite", "compress"},
          sizes \in VariantSizes :
          /\ failed = "drewrite" => drewrite
          /\ failed = "compress" => compress
          /\ options' = IF failed = "drewrite" THEN ("drewrite" :> drewrite) @@ options
                        ELSE IF failed = "compress"
                        THEN ("drewrite" :> drewrite) @@ ("compress" :> compress) @@ options
                        ELSE ("drewrite" :> drewrite) @@ ("compress" :> compress)
                             @@ ("write-binary" :> binary)
                             @@ (IF binary THEN EmptyFun ELSE ("write-ascii" :> ascii))
                             @@ options
          /\ trace' = Append2(trace, <<"encode", "encode", "encode", "minimize solution",
                                       "encode", "encode", "encode">>
                          \o If(drewrite, <<"drewrite">>)
                          \o If(compress /\ failed # "drewrite", <<"compress">>))
          /\ IF failed # "none"
             THEN stdout' = stdout /\ UNCHANGED bestVars /\ Finish(Aborted)
             ELSE /\ numAnds' = sizes
                  /\ wrote' = If(binary \/ ascii, write_smallest(sizes))
                  /\ stdout' = Append2(stdout, If(write_smallest(sizes) # <<>>,
                                                  written(binary, ascii)))
                  /\ Finish(Exit(10))
    /\ UNCHANGED <<loc, data, sym, realizable, notMain>>

\* l.944-981: --bisim-sol, then --print-kiss or --print-witness
BisimAndPrint ==
    /\ main_pc = "plain"
    /\ trace' = Append2(trace, If(loc.bisim_sol, <<"minimize solution">>))
    /\ \E kiss \in BOOLEAN, witness \in BOOLEAN :
          /\ options' = IF kiss THEN ("print-kiss" :> kiss) @@ options
                        ELSE ("print-kiss" :> kiss) @@ ("print-witness" :> witness) @@ options
          /\ IF kiss THEN stdout' = Append(stdout, "kiss") /\ Finish(Exit(10))
             ELSE IF witness
             THEN stdout' = Append(stdout, "witness game") /\ Finish(Exit(10))
             ELSE main_pc' = "encode" /\ UNCHANGED <<stdout, status>>
    /\ UNCHANGED <<loc, data, sym, realizable, bestVars, notMain>>

\* l.983-1003: encode the circuit
Encode ==
    /\ main_pc = "encode"
    /\ trace' = Append(trace, "encode")
    /\ main_pc' = "encoded"
    /\ UNCHANGED <<loc, data, sym, realizable, options, stdout, status, bestVars, notMain>>

\* l.1008-1024: --drewrite and --compress; either pass may fail fatally
Rewrite ==
    /\ main_pc = "encoded"
    /\ \E drewrite \in BOOLEAN, compress \in BOOLEAN,
          failed \in {"none", "drewrite", "compress"} :
          /\ failed = "drewrite" => drewrite
          /\ failed = "compress" => compress
          /\ options' = IF failed = "drewrite" THEN ("drewrite" :> drewrite) @@ options
                        ELSE ("drewrite" :> drewrite) @@ ("compress" :> compress) @@ options
          /\ trace' = Append2(trace, If(drewrite, <<"drewrite">>)
                                     \o If(compress /\ failed # "drewrite", <<"compress">>))
          /\ IF failed # "none" THEN Finish(Aborted)
             ELSE main_pc' = "compressed" /\ status' = status
    /\ UNCHANGED <<loc, data, sym, realizable, stdout, bestVars, notMain>>

\* l.1026-1037: write the circuit and return
WriteAndReturn ==
    /\ main_pc = "compressed"
    /\ \E binary \in BOOLEAN, ascii \in BOOLEAN :
          /\ options' = ("write-binary" :> binary)
                        @@ (IF binary THEN EmptyFun ELSE ("write-ascii" :> ascii))
                        @@ options
          /\ stdout' = Append2(stdout, written(binary, ascii)
                                       \o If(loc.verbose, <<"sylvan stats">>))
    /\ Finish(Return(10))
    /\ UNCHANGED <<loc, data, sym, realizable, trace, bestVars, notMain>>

NextMain ==
    \/ HandleOptions \/ ReadInput \/ CheckAutomaton \/ InitSylvan \/ Construct
    \/ StopBeforeSolving \/ Solve \/ ReportReal \/ Unrealizable \/ RejectSplit
    \/ Postprocess \/ Best \/ BisimAndPrint \/ Encode \/ Rewrite \/ WriteAndReturn

SpecMain == InitMain /\ [][NextMain]_vars

MainDone == main_pc = "done"
Occurs(event) == \E i \in 1..Len(trace) : trace[i] = event

\* C2: once a verdict was reached and main_task ended by exit or return, the
\* process status is 10 exactly when the game is realizable and 20 exactly
\* when it is unrealizable, whatever flags were read; with --real the output
\* is the single line REALIZABLE (status 10) or UNREALIZABLE (status 20) and
\* nothing was encoded.  The only other end after a verdict is the fatal
\* error of a requested --drewrite or --compress pass.
C2_ExitStatusMatchesVerdict ==
    (MainDone /\ realizable # "unknown") =>
        /\ status.kind \in {"exit", "return", "abort"}
        /\ status.kind = "abort" =>
              realizable = "true" /\ ~Given("real") /\ (Given("drewrite") \/ Given("compress"))
        /\ status.kind # "abort" =>
              /\ ProcessStatus = 10 <=> realizable = "true"
              /\ ProcessStatus = 20 <=> realizable = "false"
        /\ Given("real") =>
              /\ realizable = "true" => stdout = <<"REALIZABLE">> /\ status = Exit(10)
              /\ realizable = "false" => stdout = <<"UNREALIZABLE">> /\ status = Exit(20)
              /\ ~Occurs("encode") /\ ~Occurs("postprocess")

C2_Witness ==
    /\ MainDone /\ Given("real") /\ realizable = "true"
    /\ stdout = <<"REALIZABLE">> /\ ProcessStatus = 10 /\ Occurs("oink run")


ConstructEvents == {"constructGameNaive", "constructGame", "toExplicit"}
ReadsOfController == {"winner[0] is 0", "winner[data->start[0]] is 0"}
ReadsOfEnvironment == {"winner[0] is 1", "winner[data->start[0]] is 1"}
ReadsAtStart == {"winner[data->start[0]] is 0", "winner[data->start[0]] is 1"}
Count(event) == Cardinality({ i \in 1..Len(trace) : trace[i] = event })

\* C24: with the external solver the game is built, then sorted, then
\* solved, then permuted back, and then the winner of the initial vertex is
\* read, each once and with nothing in between; the entry read is
\* data->start[0] after the naive and the explicit split and 0 for a game
\* exported from the symbolic one; realizable is true exactly if the entry
\* holds 0.
C24_SolverStepsInOrder ==
    Occurs("oink run") =>
        \E i \in 2..(Len(trace) - 3) :
            /\ trace[i - 1] \in ConstructEvents
            /\ trace[i] = "sort" /\ trace[i + 1] = "oink run"
            /\ trace[i + 2] = "permute"
            /\ trace[i + 3] \in ReadsOfController \cup ReadsOfEnvironment
            /\ \A e \in {"sort", "oink run", "permute"} : Count(e) = 1
            /\ \A k \in 1..Len(trace) :
                  trace[k] \in ReadsOfController \cup ReadsOfEnvironment => k = i + 3
            /\ trace[i + 3] \in ReadsAtStart
                  <=> trace[i - 1] \in {"constructGameNaive", "constructGame"}
            /\ realizable = "true" <=> trace[i + 3] \in ReadsOfController
            /\ realizable = "false" <=> trace[i + 3] \in ReadsOfEnvironment
C24_Witness ==
    /\ MainDone /\ Occurs("constructGame") /\ Occurs("winner[data->start[0]] is 1")
    /\ realizable = "false" /\ status = Return(20)

-----------------------------------------------------------------------------
(* The explicit game constructions, knor.cpp:39-474.                       *)

\* ---- labels (BTree of simplehoa.h), as far as the evaluators read them
NT_BOOL(b) == [type |-> "NT_BOOL", id |-> b]
NT_AP(i) == [type |-> "NT_AP", id |-> i]
NT_NOT(l) == [type |-> "NT_NOT", left |-> l]
NT_AND(l, r) == [type |-> "NT_AND", left |-> l, right |-> r]
NT_OR(l, r) == [type |-> "NT_OR", left |-> l, right |-> r]
NT_ALIAS(a) == [type |-> "NT_ALIAS", alias |-> a]

\* The automata tried have NumUAPs + NumCAPs atomic propositions, the
\* uncontrollable ones first; u is the first uncontrollable and c the first
\* controllable one.
noAPs == NumUAPs + NumCAPs
cntAPs == [i \in 1..NumCAPs |-> NumUAPs + i - 1]
ap_u == NT_AP(0)
ap_c == NT_AP(NumUAPs)

\* a transition names its label; this is the tree the name stands for
LabelTree(name) ==
    CASE name = "t" -> NT_BOOL(1)
      [] name = "u" -> ap_u
      [] name = "!u" -> NT_NOT(ap_u)
      [] name = "c" -> ap_c
      [] name = "!c" -> NT_NOT(ap_c)
      [] name = "f" -> NT_BOOL(0)
      [] name = "u|c" -> NT_OR(ap_u, ap_c)
      [] name = "@a" -> NT_ALIAS("@a")
      [] name = "@b" -> NT_ALIAS("@b")
      [] name = "@x" -> NT_ALIAS("@x")
      [] name = "(u|c)&(u|!c)" -> NT_AND(NT_OR(ap_u, ap_c), NT_OR(ap_u, NT_NOT(ap_c)))

\* the label lists a state may carry, transition by transition
Shapes == { <<"t">>, <<"c", "!c">>, <<"u", "!u">>, <<"(u|c)&(u|!c)", "!u">>, <<"u">>,
            <<"u", "c">> }
LabelNames == UNION { { sh[j] : j \in 1..Len(sh) } : sh \in Shapes }

\* ---- the automata handed to the constructions: two acceptance sets, every
\* ---- transition with one successor, priorities either on all states or on
\* ---- all transitions
AccSigs(present) == IF present THEN { <<0>>, <<1>> } ELSE { <<>> }
Transitions(n, stateBased) ==
    [label : LabelNames, accSig : AccSigs(~stateBased), successors : { <<t>> : t \in 0..(n - 1) }]
TransLists(n, stateBased) ==
    UNION { { tr \in [1..Len(sh) -> Transitions(n, stateBased)] :
                 \A j \in 1..Len(sh) : tr[j].label = sh[j] } : sh \in Shapes }
States(n, stateBased) ==
    [id : 0..(n - 1), accSig : AccSigs(stateBased), transitions : TransLists(n, stateBased)]
HoaOfStyle(n, stateBased) ==
    { [noStates |-> n, noAPs |-> noAPs, cntAPs |-> cntAPs, noAccSets |-> 2,
       start |-> <<0>>, aliases |-> <<>>, states |-> st] :
      st \in { f \in [1..n -> States(n, stateBased)] : \A i \in 1..n : f[i].id = i - 1 } }
HoaGames == UNION { HoaOfStyle(n, TRUE) \cup HoaOfStyle(n, FALSE) : n \in 1..GameStates }

\* l.209-224 and l.306-323: the uncontrollable APs in order, and the BDD
\* variable of every AP (uncontrollable before controllable)
controllable(d) == { d.cntAPs[i] : i \in 1..Len(d.cntAPs) }
cap_count_of(d) == Cardinality(controllable(d))
uap_count_of(d) == d.noAPs - cap_count_of(d)
ucntAPs(d) == SortedSeq({ i \in 0..(d.noAPs - 1) : i \notin controllable(d) })
variables(d) ==
    [i \in 0..(d.noAPs - 1) |->
        IF i \in controllable(d)
        THEN uap_count_of(d) + Cardinality({ k \in controllable(d) : k < i })
        ELSE Cardinality({ k \in 0..(i - 1) : k \notin controllable(d) })]

Pow2(n) == 2 ^ n

\* evalLabelNaive, l.98-144: 1 true, -1 false, 0 unknown, under the
\* valuation value of the APs apIds (bit i of value is AP apIds[i])
RECURSIVE evalLabelNaive_unknown_is_true(_, _, _, _, _)
evalLabelNaive_unknown_is_true(label, aliases, numAPs, apIds, value) ==
    CASE label.type = "NT_BOOL" -> IF label.id # 0 THEN 1 ELSE -1
      [] label.type = "NT_AND" ->
            LET left == evalLabelNaive_unknown_is_true(label.left, aliases, numAPs, apIds, value)
                right == evalLabelNaive_unknown_is_true(label.right, aliases, numAPs, apIds, value)
            IN  IF left = -1 \/ right = -1 THEN -1
                ELSE IF left = 0 \/ right = 0 THEN 0
                ELSE 1
      [] label.type = "NT_OR" ->
            LET left == evalLabelNaive_unknown_is_true(label.left, aliases, numAPs, apIds, value)
                right == evalLabelNaive_unknown_is_true(label.right, aliases, numAPs, apIds, value)
            IN  IF left = 1 \/ right = 1 THEN 1
                ELSE IF left = 0 \/ right = 0 THEN 0
                ELSE -1
      [] label.type = "NT_NOT" ->
            (-1) * evalLabelNaive_unknown_is_true(label.left, aliases, numAPs, apIds, value)
      [] label.type = "NT_AP" ->
            LET hits == { i \in 0..(numAPs - 1) : apIds[i + 1] = label.id }
            IN  IF hits = {} THEN 1
                ELSE LET i == CHOOSE h \in hits : \A k \in hits : h <= k
                     IN  IF (value \div Pow2(i)) % 2 = 1 THEN 1 ELSE -1
      [] label.type = "NT_ALIAS" ->
            LET hits == { i \in 1..Len(aliases) : aliases[i].alias = label.alias }
            IN  IF hits = {} THEN -2
                ELSE LET i == CHOOSE h \in hits : \A k \in hits : h <= k
                     IN  evalLabelNaive_unknown_is_true(LabelTree(aliases[i].labelExpr),
                                                        aliases, numAPs, apIds, value)

RECURSIVE evalLabelNaive(_, _, _, _, _)
evalLabelNaive(label, aliases, numAPs, apIds, value) ==
    CASE label.type = "NT_BOOL" -> IF label.id # 0 THEN 1 ELSE -1
      [] label.type = "NT_AND" ->
            LET left == evalLabelNaive(label.left, aliases, numAPs, apIds, value)
                right == evalLabelNaive(label.right, aliases, numAPs, apIds, value)
            IN  IF left = -1 \/ right = -1 THEN -1
                ELSE IF left = 0 \/ right = 0 THEN 0
                ELSE 1
      [] label.type = "NT_OR" ->
            LET left == evalLabelNaive(label.left, aliases, numAPs, apIds, value)
                right == evalLabelNaive(label.right, aliases, numAPs, apIds, value)
            IN  IF left = 1 \/ right = 1 THEN 1
                ELSE IF left = 0 \/ right = 0 THEN 0
                ELSE -1
      [] label.type = "NT_NOT" ->
            (-1) * evalLabelNaive(label.left, aliases, numAPs, apIds, value)
      [] label.type = "NT_AP" ->
            LET hits == { i \in 0..(numAPs - 1) : apIds[i + 1] = label.id }
            IN  IF hits = {} THEN 0
                ELSE LET i == CHOOSE h \in hits : \A k \in hits : h <= k
                     IN  IF (value \div Pow2(i)) % 2 = 1 THEN 1 ELSE -1
      \* l.134-141: the first alias of that name; -2 when there is none
      [] label.type = "NT_ALIAS" ->
            LET hits == { i \in 1..Len(aliases) : aliases[i].alias = label.alias }
            IN  IF hits = {} THEN -2
                ELSE LET i == CHOOSE h \in hits : \A k \in hits : h <= k
                     IN  evalLabelNaive(LabelTree(aliases[i].labelExpr),
                                        aliases, numAPs, apIds, value)

\* evalLabel, l.43-88.  A BDD over the AP variables is modelled by the set of
\* its satisfying assignments, an assignment being the set of variables at 1.
ApAssignments(d) == SUBSET (0..(d.noAPs - 1))
RECURSIVE evalLabel(_, _)
evalLabel(label, d) ==
    CASE label.type = "NT_BOOL" -> IF label.id # 0 THEN ApAssignments(d) ELSE {}
      [] label.type = "NT_AND" -> evalLabel(label.left, d) \cap evalLabel(label.right, d)
      [] label.type = "NT_OR" -> evalLabel(label.left, d) \cup evalLabel(label.right, d)
      [] label.type = "NT_NOT" -> ApAssignments(d) \ evalLabel(label.left, d)
      [] label.type = "NT_AP" -> { a \in ApAssignments(d) : variables(d)[label.id] \in a }

\* ---- one call of evalLabelNaive: the labels tried are one or two named
\* ---- labels under an operator, the aliases are @a and @b (@x is not
\* ---- defined), the valuation is any of the uncontrollable APs
EvalAliases == << [alias |-> "@a", labelExpr |-> "u|c"],
                  [alias |-> "@b", labelExpr |-> "@a"] >>
EvalNames == {"t", "f", "u", "!u", "c", "!c", "(u|c)&(u|!c)", "@a", "@b", "@x"}
EvalInputs ==
    { in \in [op : {"is", "not", "and", "or"}, left : EvalNames, right : EvalNames,
              value : 0..(Pow2(NumUAPs) - 1)] :
         in.op \in {"is", "not"} => in.right = in.left }
EvalLabelOf(in) ==
    CASE in.op = "is" -> LabelTree(in.left)
      [] in.op = "not" -> NT_NOT(LabelTree(in.left))
      [] in.op = "and" -> NT_AND(LabelTree(in.left), LabelTree(in.right))
      [] in.op = "or" -> NT_OR(LabelTree(in.left), LabelTree(in.right))
EvalData == [noAPs |-> noAPs, cntAPs |-> cntAPs]

InitEval ==
    /\ ev_pc = "call" /\ ev_in \in EvalInputs /\ ev_result = 0
    /\ AdjIdle /\ AigIdle /\ MainIdle /\ GameIdle /\ AbcIdle

\* the call of l.250
EvalLabelNaiveCall ==
    /\ ev_pc = "call"
    /\ ev_result' = evalLabelNaive(EvalLabelOf(ev_in), EvalAliases,
                                   uap_count_of(EvalData), ucntAPs(EvalData), ev_in.value)
    /\ ev_pc' = "done"
    /\ UNCHANGED <<ev_in, notEval>>

NextEval == EvalLabelNaiveCall
SpecEval == InitEval /\ [][NextEval]_vars

\* ---- pg::Game as the constructions fill it: per vertex index its priority,
\* ---- owner and edges; kind tells which init_vertex call made the vertex
NewGame(d) == [v |-> EmptyFun, nextIndex |-> d.noStates]
\* an init_vertex that hands the vertex to the other player
init_vertex_other_owner(g, idx, priority, owner, edges, kind) ==
    [g EXCEPT !.v = (idx :> [priority |-> priority, owner |-> 1 - owner,
                             edges |-> edges, kind |-> kind]) @@ g.v]
init_vertex(g, idx, priority, owner, edges, kind) ==
    [g EXCEPT !.v = (idx :> [priority |-> priority, owner |-> owner,
                             edges |-> edges, kind |-> kind]) @@ g.v]
TakeIndex(g) == [g EXCEPT !.nextIndex = g.nextIndex + 1]
Adjusted(accSig, cfg) ==
    adjustPriority(accSig[1], cfg.isMaxParity, cfg.controllerIsOdd, cfg.data.noAccSets)

\* l.240-269: the transitions of one state under one valuation
RECURSIVE naive_transitions(_, _, _, _, _, _)
naive_transitions(g, cfg, state, value, j, succ_inter) ==
    IF j > Len(state.transitions) THEN [g |-> g, succ_inter |-> succ_inter]
    ELSE
      LET trans == state.transitions[j]
          evald == evalLabelNaive(LabelTree(trans.label), cfg.data.aliases, uap_count_of(cfg.data),
                                  ucntAPs(cfg.data), value)
          vfin == g.nextIndex
      IN  IF evald = -1 THEN naive_transitions(g, cfg, state, value, j + 1, succ_inter)
          ELSE IF state.accSig = <<>>
          THEN naive_transitions(
                  init_vertex(TakeIndex(g), vfin, Adjusted(trans.accSig, cfg), 0,
                              <<trans.successors[1]>>, "priority"),
                  cfg, state, value, j + 1, Append(succ_inter, vfin))
          ELSE naive_transitions(g, cfg, state, value, j + 1,
                                 Append(succ_inter, trans.successors[1]))

\* l.238-278: one intermediate vertex per valuation of the uncontrollable APs
RECURSIVE naive_valuations(_, _, _, _, _)
naive_valuations(g, cfg, state, value, succ_state) ==
    IF value >= Pow2(uap_count_of(cfg.data)) THEN [g |-> g, succ_state |-> succ_state]
    ELSE
      LET r == naive_transitions(g, cfg, state, value, 1, <<>>)
          vinter == r.g.nextIndex
      IN  naive_valuations(
             init_vertex(TakeIndex(r.g), vinter, 0, 0, r.succ_inter, "intermediate"),
             cfg, state, value + 1, Append(succ_state, vinter))

\* l.236-292: the loop over the states
RECURSIVE naive_states(_, _, _)
naive_states(g, cfg, i) ==
    IF i >= cfg.data.noStates THEN g
    ELSE
      LET state == cfg.data.states[i + 1]
          r == naive_valuations(g, cfg, state, 0, <<>>)
          priority == IF state.accSig # <<>> THEN Adjusted(state.accSig, cfg) ELSE 0
      IN  naive_states(init_vertex(r.g, state.id, priority, 1, r.succ_state, "state"),
                       cfg, i + 1)

\* constructGameNaive, l.207-298
constructGameNaive(cfg) == naive_states(NewGame(cfg.data), cfg, 0)

\* ---- the explicit split
\* An MTBDD over the AP variables is modelled by the leaf it gives to every
\* assignment.  A leaf is <<1, priority, state>> for mtbdd_int64 of
\* (priority << 32) | state and <<0, 0, 0>> for the terminal mtbdd_false,
\* whose int64 value collect_targets reads as 0.
false_leaf == <<0, 0, 0>>
int64_leaf(priority, successor) == <<1, priority, successor>>
mtbdd_getint64(leaf) == <<leaf[2], leaf[3]>>

\* l.370-396: trans_bdd after the first j transitions; a later transition
\* overrides an earlier one where both labels hold (mtbdd_ite)
RECURSIVE trans_bdd(_, _, _)
trans_bdd(cfg, state, j) ==
    IF j = 0 THEN [a \in ApAssignments(cfg.data) |-> false_leaf]
    ELSE
      LET trans == state.transitions[j]
          priority == IF state.accSig = <<>> THEN Adjusted(trans.accSig, cfg) ELSE 0
          lblbdd == evalLabel(LabelTree(trans.label), cfg.data)
          leaf == int64_leaf(priority, trans.successors[1])
          below == trans_bdd(cfg, state, j - 1)
      IN  [a \in ApAssignments(cfg.data) |-> IF a \in lblbdd THEN leaf ELSE below[a]]

\* BDDTools::collectSubroots (l.402): the distinct sub-diagrams below the
\* uncontrollable variables, one per environment branch, here in the order of
\* the valuations that first lead to them
UapSet(d, value) == { i \in 0..(uap_count_of(d) - 1) : (value \div Pow2(i)) % 2 = 1 }
CapAssignments(d) == SUBSET (uap_count_of(d)..(d.noAPs - 1))
Subroot(tb, d, value) == [ca \in CapAssignments(d) |-> tb[UapSet(d, value) \cup ca]]
RECURSIVE collectSubroots(_, _, _, _)
collectSubroots(tb, d, value, found) ==
    IF value >= Pow2(uap_count_of(d)) THEN found
    ELSE LET sub == Subroot(tb, d, value)
         IN  IF \E k \in 1..Len(found) : found[k] = sub
             THEN collectSubroots(tb, d, value + 1, found)
             ELSE collectSubroots(tb, d, value + 1, Append(found, sub))

\* collect_targets, l.178-201: the leaves below a subroot; the BDD returned
\* encodes exactly this set of <<priority, state>> pairs
collect_targets(inter_bdd) == { mtbdd_getint64(inter_bdd[ca]) : ca \in DOMAIN inter_bdd }

\* std::set<uint64_t> iterates in increasing (priority << 32) | state order
RECURSIVE SortedLeaves(_)
SortedLeaves(S) ==
    IF S = {} THEN <<>>
    ELSE LET mn == CHOOSE a \in S : \A b \in S :
                      a[1] < b[1] \/ (a[1] = b[1] /\ a[2] <= b[2])
         IN  <<mn>> \o SortedLeaves(S \ {mn})

\* l.409-430: the successors of a new intermediate vertex
RECURSIVE explicit_targets(_, _, _, _, _)
explicit_targets(g, lvals, k, succ_inter, target_vertices) ==
    IF k > Len(lvals)
    THEN [g |-> g, succ_inter |-> succ_inter, target_vertices |-> target_vertices]
    ELSE
      LET priority == lvals[k][1]
          target == lvals[k][2]
          vfin == g.nextIndex
      IN  IF priority # 0
          THEN IF lvals[k] \notin DOMAIN target_vertices
               THEN explicit_targets(
                       init_vertex(TakeIndex(g), vfin, priority, 0, <<target>>, "priority"),
                       lvals, k + 1, Append(succ_inter, vfin),
                       (lvals[k] :> vfin) @@ target_vertices)
               ELSE explicit_targets(g, lvals, k + 1,
                       Append(succ_inter, target_vertices[lvals[k]]), target_vertices)
          ELSE explicit_targets(g, lvals, k + 1, Append(succ_inter, target), target_vertices)

\* l.403-448: one intermediate vertex per subroot, shared between subroots
\* with the same targets; targets and target_vertices are cleared after
\* every subroot
RECURSIVE explicit_subroots(_, _, _, _, _)
explicit_subroots(g, inter_bdds, k, succ_state, inter_vertices) ==
    IF k > Len(inter_bdds) THEN [g |-> g, succ_state |-> succ_state]
    ELSE
      LET targets == collect_targets(inter_bdds[k])
      IN  IF targets \notin DOMAIN inter_vertices
          THEN LET r == explicit_targets(g, SortedLeaves(targets), 1, <<>>, EmptyFun)
                   vinter == r.g.nextIndex
               IN  explicit_subroots(
                      init_vertex(TakeIndex(r.g), vinter, 0, 0, r.succ_inter, "intermediate"),
                      inter_bdds, k + 1, Append(succ_state, vinter),
                      (targets :> vinter) @@ inter_vertices)
          ELSE explicit_subroots(g, inter_bdds, k + 1,
                                 Append(succ_state, inter_vertices[targets]), inter_vertices)

\* l.368-465: the loop over the states; inter_vertices is cleared per state
RECURSIVE explicit_states(_, _, _)
explicit_states(g, cfg, i) ==
    IF i >= cfg.data.noStates THEN g
    ELSE
      LET state == cfg.data.states[i + 1]
          tb == trans_bdd(cfg, state, Len(state.transitions))
          r == explicit_subroots(g, collectSubroots(tb, cfg.data, 0, <<>>), 1, <<>>, EmptyFun)
          priority == IF Len(state.accSig) # 0 THEN Adjusted(state.accSig, cfg) ELSE 0
      IN  explicit_states(init_vertex(r.g, state.id, priority, 1, r.succ_state, "state"),
                          cfg, i + 1)

\* constructGame, l.304-474
constructGame(cfg) == explicit_states(NewGame(cfg.data), cfg, 0)

\* ---- the external solver (pg::Oink, l.694-727): a max-parity game in which
\* ---- player 0, the controller, wins the even priorities
Vertices(g) == DOMAIN g.v
Edges(g, v) == { g.v[v].edges[k] : k \in 1..Len(g.v[v].edges) }
HasDeadEnd(g) == \E v \in Vertices(g) : Edges(g, v) = {}

\* the vertices of V from which player pl can force the play into U
RECURSIVE Attr(_, _, _, _)
Attr(g, pl, U, V) ==
    LET more == { v \in V \ U :
                    IF g.v[v].owner = pl
                    THEN Edges(g, v) \cap U # {}
                    ELSE /\ Edges(g, v) \cap V # {}
                         /\ Edges(g, v) \cap V \subseteq U }
    IN  IF more = {} THEN U ELSE Attr(g, pl, U \cup more, V)

\* the vertices of the subgame V won by player 0
RECURSIVE Win0(_, _)
Win0(g, V) ==
    IF V = {} THEN {}
    ELSE
      LET d == CHOOSE p \in { g.v[v].priority : v \in V } :
                  \A v \in V : g.v[v].priority <= p
          pl == d % 2
          A == Attr(g, pl, { v \in V : g.v[v].priority = d }, V)
          W0a == Win0(g, V \ A)
          lost == IF pl = 0 THEN (V \ A) \ W0a ELSE W0a
      IN  IF lost = {} THEN (IF pl = 0 THEN V ELSE {})
          ELSE LET B == Attr(g, 1 - pl, lost, V)
                   W0b == Win0(g, V \ B)
               IN  IF pl = 0 THEN W0b ELSE W0b \cup B

\* l.727: realizable = game->winner[vstart] == 0
Verdict(g, v0) == IF v0 \in Win0(g, Vertices(g)) THEN "true" ELSE "false"

\* ---- the game specification: an automaton, one of the two constructions,
\* ---- the solver
GameInputs == [data : HoaGames, isMaxParity : BOOLEAN, controllerIsOdd : BOOLEAN]

InitGame ==
    /\ g_pc = "start" /\ g_in \in GameInputs /\ g_split = "none" /\ game = EmptyFun
    /\ g_realizable = "unknown"
    /\ AdjIdle /\ AigIdle /\ MainIdle /\ AbcIdle /\ EvalIdle

ConstructGameNaiveCall ==
    /\ g_pc = "start"
    /\ game' = constructGameNaive(g_in)
    /\ g_split' = "naive"
    /\ g_pc' = "built"
    /\ UNCHANGED <<g_in, g_realizable, notGame>>

ConstructGameCall ==
    /\ g_pc = "start"
    /\ game' = constructGame(g_in)
    /\ g_split' = "explicit"
    /\ g_pc' = "built"
    /\ UNCHANGED <<g_in, g_realizable, notGame>>

\* What the solver does at a vertex without edges is not known here: either
\* verdict may come back for a game that has one.
OinkRun ==
    /\ g_pc = "built"
    /\ IF HasDeadEnd(game)
       THEN g_realizable' \in {"true", "false"}
       ELSE g_realizable' = Verdict(game, g_in.data.start[1])
    /\ g_pc' = "solved"
    /\ UNCHANGED <<g_in, g_split, game, notGame>>

NextGame == ConstructGameNaiveCall \/ ConstructGameCall \/ OinkRun

SpecGame == InitGame /\ [][NextGame]_vars

\* an automaton is deterministic and complete when under every assignment of
\* the APs exactly one transition of every state is enabled
Enabled(d, state, a) ==
    { j \in 1..Len(state.transitions) : a \in evalLabel(LabelTree(state.transitions[j].label), d) }
DeterministicComplete(d) ==
    \A i \in 1..d.noStates : \A a \in ApAssignments(d) :
        Cardinality(Enabled(d, d.states[i], a)) = 1

OtherSplit(cfg, split) ==
    IF split = "naive" THEN constructGame(cfg) ELSE constructGameNaive(cfg)

\* C1: for a deterministic (and complete) automaton the verdict does not
\* depend on the construction: the naive and the explicit split give games
\* with the same winner at the initial vertex.
C1_AsStated ==
    (g_pc = "solved" /\ DeterministicComplete(g_in.data)) =>
        g_realizable = Verdict(OtherSplit(g_in, g_split), g_in.data.start[1])

\* What does hold: the verdicts agree when the three-valued evaluator is
\* exact on every label, that is, when it rules a label out under a valuation
\* of the uncontrollable APs exactly if no choice of the controllable APs
\* makes the label true.
NaiveExact(d) ==
    \A i \in 1..d.noStates : \A j \in 1..Len(d.states[i].transitions) :
      \A value \in 0..(Pow2(uap_count_of(d)) - 1) :
        LET label == LabelTree(d.states[i].transitions[j].label)
        IN  (evalLabelNaive(label, d.aliases, uap_count_of(d), ucntAPs(d), value) # -1)
            <=> (\E ca \in CapAssignments(d) : UapSet(d, value) \cup ca \in evalLabel(label, d))
SplitsAgreeWhenNaiveExact ==
    (g_pc = "solved" /\ DeterministicComplete(g_in.data) /\ NaiveExact(g_in.data)) =>
        g_realizable = Verdict(OtherSplit(g_in, g_split), g_in.data.start[1])

GameBuilt == g_pc \in {"built", "solved"}
CarriesAcceptance(v) ==
    \/ game.v[v].kind = "priority"
    \/ game.v[v].kind = "state" /\ g_in.data.states[v + 1].accSig # <<>>

\* C4: adjustPriority returns at least 1 for every number k >= 1 of acceptance
\* sets, every priority below k, max or min parity, odd or even controller;
\* and in the games built, priority 0 occurs only on vertices that carry no
\* acceptance: intermediate vertices and the state vertices of automata with
\* priorities on transitions.
C4_PriorityZeroReserved ==
    /\ \A k \in 1..MaxAccSets : \A p \in 0..(k - 1) :
         \A maxPriority \in BOOLEAN, controllerIsOdd \in BOOLEAN :
            adjustPriority(p, maxPriority, controllerIsOdd, k) >= 1
    /\ GameBuilt =>
         \A v \in Vertices(game) :
            /\ game.v[v].priority >= 0
            /\ CarriesAcceptance(v) <=> game.v[v].priority >= 1

C4_Witness ==
    /\ GameBuilt
    /\ \E v \in Vertices(game) : game.v[v].kind = "priority" /\ game.v[v].priority = 1
    /\ \E v \in Vertices(game) : game.v[v].kind = "state" /\ game.v[v].priority = 0
    /\ \E v \in Vertices(game) : game.v[v].kind = "intermediate" /\ game.v[v].priority = 0

IsCircuit(line) == line \in {"aiger binary", "aiger ascii"}

\* C15: when --best reaches the selection with -a or -b given, exactly one
\* of the six circuits is written, and none of the six has fewer AND gates
\* than the one written.
C15_BestWritesSmallest ==
    (MainDone /\ numAnds # <<>> /\ (Given("write-binary") \/ Given("write-ascii"))) =>
        /\ Len(wrote) = 1
        /\ \E i \in 1..Len(Variants) :
              /\ wrote[1] = Variants[i]
              /\ \A j \in 1..Len(Variants) : numAnds[i] <= numAnds[j]
        /\ Len(SelectSeq(stdout, IsCircuit)) = 1
        /\ status = Exit(10)
C15_Witness ==
    /\ MainDone /\ wrote = <<"var3b">> /\ Given("write-ascii")
    /\ numAnds = [i \in 1..Len(Variants) |-> IF i = Len(Variants) THEN 0 ELSE 1]

\* a game was built or solved in this run
GameTouched ==
    \E e \in {"constructGameNaive", "constructGame", "constructSymGame",
               "oink run", "sym solve"} : Occurs(e)
SplitChosen ==
    /\ "naive_splitting" \in DOMAIN loc
    /\ loc.naive_splitting \/ loc.explicit_splitting

\* C16: a run with --naive or --explicit and without --real is rejected
\* before any game is constructed or solved, and does not end with the
\* status of a realizable specification.
C16_AsStated ==
    (SplitChosen /\ "real" \in DOMAIN options /\ ~options["real"]) =>
        /\ ~GameTouched
        /\ MainDone => ProcessStatus # 10

\* the two styles of l.598-604 mixed in one automaton
MixedStyles(d) ==
    \E i, j \in 1..d.noStates :
        d.states[i].noAccSig # 0 /\ d.states[j].noAccSig = 0
Parsed == data # EmptyFun
ReturnedError == MainDone /\ status.kind = "return" /\ status.code # 0

\* C17: whenever some state of the automaton carries an acceptance
\* signature and another carries none, main_task returns non-zero, and no
\* game is ever constructed.
C17_AsStated ==
    (Parsed /\ MixedStyles(data)) =>
        /\ ~Occurs("sylvan_init") /\ ~GameTouched
        /\ MainDone => ReturnedError

\* the direction the loop does catch: state 0 without a signature and a
\* later state with one
MixedCaughtWhenFirstStateHasNone ==
    (Parsed /\ MixedStyles(data) /\ data.states[1].noAccSig = 0) =>
        /\ ~Occurs("sylvan_init") /\ ~GameTouched
        /\ MainDone => ReturnedError

\* an error the driver itself detected and reported
DriverError ==
    \/ \E i \in 1..Len(stdout) : stdout[i] \in {"file not found", "error parsing options"}
    \/ Occurs("state has an invalid id")
    \/ Occurs("not every state has a priority!")

\* C18: every run in which the driver reported an error of its own ends
\* with a status that is neither 0 nor 10 nor 20, and builds no game.
C18_AsStated ==
    (MainDone /\ DriverError) =>
        /\ status.kind \in {"exit", "return"}
        /\ ProcessStatus \notin {0, 10, 20}
        /\ ~GameTouched

\* the two checks of the loop do end with a status that is an error
CheckFailuresReturnError ==
    (MainDone /\ (Occurs("state has an invalid id")
                    \/ Occurs("not every state has a priority!"))) =>
        status = Return(-1) /\ ~GameTouched

\* C19: once applyStrategy failed, nothing is encoded or written, and the
\* run does not end with status 10.
C19_AsStated ==
    Occurs("cannot apply strategy!") =>
        /\ ~Occurs("encode")
        /\ \A i \in 1..Len(stdout) : ~IsCircuit(stdout[i])
        /\ MainDone => (status = Aborted \/ ProcessStatus # 10)

\* C20: a run that initialised the DD kernel and ended with the verdict 10
\* or 20 called sylvan_quit and resetHoa before it ended.
C20_AsStated ==
    (MainDone /\ Occurs("sylvan_init") /\ status.kind \in {"exit", "return"}
        /\ status.code \in {10, 20}) =>
        Occurs("sylvan_quit") /\ Occurs("resetHoa")

OfKind(kind) == { v \in Vertices(game) : game.v[v].kind = kind }
NaiveBuilt == GameBuilt /\ g_split = "naive"
ExplicitBuilt == GameBuilt /\ g_split = "explicit"

\* C21 as stated: in the naive split every intermediate vertex has
\* priority 0 and owner 1.
C21_AsStated ==
    NaiveBuilt =>
        \A v \in OfKind("intermediate") :
            game.v[v].priority = 0 /\ game.v[v].owner = 1

\* C21: in the naive split every intermediate vertex has priority 0 and
\* owner 0, the player the winner of the initial vertex is compared with
\* (the controller); there is one per state and valuation of the
\* uncontrollable APs, and the state vertices that lead to them have owner 1.
C21_IntermediateOwnedByController ==
    NaiveBuilt =>
        /\ \A v \in OfKind("intermediate") :
              game.v[v].priority = 0 /\ game.v[v].owner = 0
        /\ \A v \in OfKind("state") :
              /\ game.v[v].owner = 1
              /\ Len(game.v[v].edges) = Pow2(uap_count_of(g_in.data))
              /\ Edges(game, v) \subseteq OfKind("intermediate")
        /\ Cardinality(OfKind("intermediate"))
              = g_in.data.noStates * Pow2(uap_count_of(g_in.data))
C21_Witness ==
    /\ NaiveBuilt
    /\ \E v \in OfKind("intermediate") : Len(game.v[v].edges) = 2

\* C22: in every game returned by constructGameNaive or constructGame every
\* index below the final vertex count is a vertex with at least one
\* outgoing edge.
C22_AsStated ==
    GameBuilt =>
        \A v \in 0..(game.nextIndex - 1) :
            v \in Vertices(game) /\ Edges(game, v) # {}

\* a valuation of the uncontrollable APs under which the three-valued
\* evaluator rules out every transition of the state
NoTransitionUnder(d, state, value) ==
    \A j \in 1..Len(state.transitions) :
        evalLabelNaive(LabelTree(state.transitions[j].label), d.aliases, uap_count_of(d),
                       ucntAPs(d), value) = -1
\* where the vertices without edges come from: the naive split, and there
\* exactly the automata with such a valuation; the explicit split has none
DeadEndsOnlyFromUncoveredValuations ==
    GameBuilt =>
        /\ \A v \in 0..(game.nextIndex - 1) : v \in Vertices(game)
        /\ HasDeadEnd(game) <=>
              /\ g_split = "naive"
              /\ \E i \in 1..g_in.data.noStates :
                    \E value \in 0..(Pow2(uap_count_of(g_in.data)) - 1) :
                       NoTransitionUnder(g_in.data, g_in.data.states[i], value)

\* the priority vertices below the intermediate vertices of a state vertex
PriorityVerticesOf(s) ==
    UNION { Edges(game, m) \cap OfKind("priority") : m \in Edges(game, s) }

\* C23: in the explicit split at most one priority vertex exists per source
\* state and (priority, next-state) pair, also when the pair is reached
\* from two different subroots of the state.
C23_AsStated ==
    ExplicitBuilt =>
        \A s \in OfKind("state") : \A v, w \in PriorityVerticesOf(s) :
            (game.v[v].priority = game.v[w].priority /\ game.v[v].edges = game.v[w].edges)
                => v = w

\* what the map target_vertices does give: no two priority vertices for one
\* pair below the same intermediate vertex
OnePriorityVertexPerPairAndSubroot ==
    ExplicitBuilt =>
        \A m \in OfKind("intermediate") : \A v, w \in Edges(game, m) \cap OfKind("priority") :
            (game.v[v].priority = game.v[w].priority /\ game.v[v].edges = game.v[w].edges)
                => v = w

\* the (priority, state) pair an edge of an intermediate vertex stands for:
\* through a priority vertex, or directly with priority 0
EdgePair(x) ==
    IF game.v[x].kind = "priority" /\ x >= g_in.data.noStates
    THEN <<game.v[x].priority, game.v[x].edges[1]>>
    ELSE <<0, x>>
EdgePairs(m) == { EdgePair(game.v[m].edges[k]) : k \in 1..Len(game.v[m].edges) }
\* the leaves of the branch of a state under a valuation of the
\* uncontrollable APs
BranchTargets(state, value) ==
    collect_targets(Subroot(trans_bdd(g_in, state, Len(state.transitions)),
                            g_in.data, value))
\* transition j of the state has this pair and a label that some choice of
\* the controllable APs makes true under the valuation
TransitionGives(state, j, value, pair) ==
    LET trans == state.transitions[j] IN
    /\ trans.successors[1] = pair[2]
    /\ pair[1] = IF state.accSig = <<>> THEN Adjusted(trans.accSig, g_in) ELSE 0
    /\ \E ca \in CapAssignments(g_in.data) :
          UapSet(g_in.data, value) \cup ca \in evalLabel(LabelTree(trans.label), g_in.data)
Valuations == 0..(Pow2(uap_count_of(g_in.data)) - 1)

\* C30: in the explicit split every edge of an intermediate vertex of a
\* state stands for a transition of that state whose label is satisfiable
\* in the environment branch of the vertex, with the transition's successor
\* and adjusted priority; assignments matched by no transition give no edge.
C30_AsStated ==
    ExplicitBuilt =>
        \A i \in 1..g_in.data.noStates :
          LET state == g_in.data.states[i] IN
          \A m \in Edges(game, state.id) :
            \E value \in Valuations :
              /\ EdgePairs(m) = BranchTargets(state, value)
              /\ \A pair \in EdgePairs(m) :
                    \E j \in 1..Len(state.transitions) :
                        TransitionGives(state, j, value, pair)

\* what the edges are: the transitions of the branch, and the pair (0, 0)
\* for the branches in which some assignment is matched by no transition
ExplicitEdgesAreTransitionsOrFalseLeaf ==
    ExplicitBuilt =>
        \A i \in 1..g_in.data.noStates :
          LET state == g_in.data.states[i] IN
          /\ \A value \in Valuations :
                \E m \in Edges(game, state.id) : EdgePairs(m) = BranchTargets(state, value)
          /\ \A m \in Edges(game, state.id) :
                \E value \in Valuations :
                  /\ EdgePairs(m) = BranchTargets(state, value)
                  /\ \A pair \in EdgePairs(m) :
                        \/ \E j \in 1..Len(state.transitions) :
                              TransitionGives(state, j, value, pair)
                        \/ /\ pair = <<0, 0>>
                           /\ \E ca \in CapAssignments(g_in.data) :
                                 \A j \in 1..Len(state.transitions) :
                                    UapSet(g_in.data, value) \cup ca
                                        \notin evalLabel(LabelTree(state.transitions[j].label),
                                                         g_in.data)

\* the truth of a label under an assignment of all APs (the set of the APs
\* at 1), aliases expanded
RECURSIVE Holds(_, _, _)
Holds(label, aliases, a) ==
    CASE label.type = "NT_BOOL" -> label.id # 0
      [] label.type = "NT_AND" -> Holds(label.left, aliases, a) /\ Holds(label.right, aliases, a)
      [] label.type = "NT_OR" -> Holds(label.left, aliases, a) \/ Holds(label.right, aliases, a)
      [] label.type = "NT_NOT" -> ~Holds(label.left, aliases, a)
      [] label.type = "NT_AP" -> label.id \in a
      [] label.type = "NT_ALIAS" ->
            \E i \in 1..Len(aliases) :
                /\ aliases[i].alias = label.alias
                /\ Holds(LabelTree(aliases[i].labelExpr), aliases, a)
RECURSIVE AliasesDefined(_, _)
AliasesDefined(label, aliases) ==
    CASE label.type \in {"NT_BOOL", "NT_AP"} -> TRUE
      [] label.type \in {"NT_AND", "NT_OR"} ->
            AliasesDefined(label.left, aliases) /\ AliasesDefined(label.right, aliases)
      [] label.type = "NT_NOT" -> AliasesDefined(label.left, aliases)
      [] label.type = "NT_ALIAS" ->
            \E i \in 1..Len(aliases) :
                /\ aliases[i].alias = label.alias
                /\ AliasesDefined(LabelTree(aliases[i].labelExpr), aliases)
\* the assignments that extend the valuation by values of the controllable APs
Extensions(value) ==
    { UapSet(EvalData, value) \cup ca : ca \in CapAssignments(EvalData) }
EvalDone == ev_pc = "done"

\* C26: for a label whose aliases are all defined, evalLabelNaive returns
\* -1, 0 or 1; it returns 1 only if the label is true under every extension
\* of the valuation by values of the controllable APs, and -1 only if it is
\* false under every extension.
C26_ThreeValuedSound ==
    (EvalDone /\ AliasesDefined(EvalLabelOf(ev_in), EvalAliases)) =>
        /\ ev_result \in {-1, 0, 1}
        /\ ev_result = 1 =>
              \A a \in Extensions(ev_in.value) : Holds(EvalLabelOf(ev_in), EvalAliases, a)
        /\ ev_result = -1 =>
              \A a \in Extensions(ev_in.value) : ~Holds(EvalLabelOf(ev_in), EvalAliases, a)
C26_Witness ==
    /\ EvalDone /\ ev_in.op = "and" /\ ev_in.left = "@b" /\ ev_in.right = "!c"
    /\ ev_in.value = 1 /\ ev_result = 0

\* without the condition on the aliases: a label that names an alias that
\* is not defined makes the call return -2, or 2 below a negation
UndefinedAliasGivesTwo ==
    (EvalDone /\ ev_in.op \in {"is", "not"} /\ ev_in.left = "@x") =>
        ev_result = IF ev_in.op = "is" THEN -2 ELSE 2

=============================================================================
